---- MODULE Spec2Model ----
(***************************************************************************)
(* Model of the preemptive round-robin scheduler of the Raspberry Pi 4     *)
(* bare-metal kernel (task.c, trapframe variant), of the shell's ps        *)
(* command and of the page/heap allocator (memory.c).                      *)
(*                                                                         *)
(* One core takes part in preemption.  Every scheduler call runs with IRQs *)
(* masked (msr daifset/daifclr around its body), so each call is one       *)
(* action; the timer IRQ is one action (irq_handler_c: tick, then          *)
(* schedule_irq).  Pointers to TCBs are pool indices, the null pointer is  *)
(* NULL.                                                                   *)
(***************************************************************************)
EXTENDS Integers, Sequences, FiniteSets, TLC

\* ---- program constants -------------------------------------------------
MAX_TASKS == 8
NULL == -1
PAGE_SIZE == 4096
BITMAP_ADDR == 1048576
\* sizeof(block_header_t): two unsigned long, a pointer, an int, padded to 8
HEADER_SIZE == 32
\* 0xDEADBEEF as two 16-bit halves, high half first
BLOCK_MAGIC == <<57005, 48879>>

TASK_READY == "READY"
TASK_RUNNING == "RUNNING"
TASK_BLOCKED == "BLOCKED"
TASK_DEAD == "DEAD"
TaskStates == {TASK_READY, TASK_RUNNING, TASK_BLOCKED, TASK_DEAD}

Slots == 0 .. (MAX_TASKS - 1)

\* ---- bounds of the model -----------------------------------------------
\* the timer IRQ is taken while tick_count < MaxTick
MaxTick == 6
\* task_create is called while next_task_id <= MaxId
MaxId == 2
\* the shell command ps is entered at most MaxPs times
MaxPs == 1
\* with the ps command in the model, the timer IRQ is taken while tick_count < MaxPsTick
MaxPsTick == 3
\* with the allocator calls in the model, the timer IRQ is taken while tick_count < MaxAllocTick
MaxAllocTick == 3
\* allocating calls (page_alloc_n, kmalloc) are begun while alloc_calls < MaxAllocCalls
MaxAllocCalls == 3
\* with no task switch inside a call, allocator calls are made while alloc_calls < MaxMemCalls
MaxMemCalls == 3
\* with the pool filled, task_create is called while next_task_id <= MaxPoolId
MaxPoolId == 8
\* and the timer IRQ is taken while tick_count < MaxPoolTick
MaxPoolTick == 3
\* from the entry of kernel_main: at most MaxBootTick timer IRQs, and
\* task_create is called while next_task_id <= MaxBootId
MaxBootTick == 3
MaxBootId == 2
\* the scheduler of src/src/drivers/task.c: task_create is called while
\* next_task_id <= MaxVId
MaxVId == 2
\* with each scheduler call taken statement by statement, the timer IRQ is
\* taken while tick_count < MaxStepTick and task_create is begun while
\* next_task_id <= MaxStepId
MaxStepTick == 3
MaxStepId == 2
\* with task_sleep given any unsigned int, the timer IRQ is taken while
\* tick_count < MaxSleepTick and task_create is called while
\* next_task_id <= MaxSleepId
MaxSleepTick == 3
MaxSleepId == 1
\* page_free_n is called with an address of any kind while alloc_calls < MaxPgCalls
MaxPgCalls == 3
\* pages under the bitmap (MANAGED_SIZE / PAGE_SIZE = 16384 in memory.c)
MANAGED_PAGES == 6
\* pages of the heap arena (64 in memory.c)
HEAP_PAGES == 1
\* arguments tried for page_alloc_n(count) and kmalloc(size)
PageCounts == {1, 2}
MallocSizes == {64, 2048, 4000}

\* arguments tried for task_sleep(ms)
SleepMs == {100, 101, 250}
\* arguments tried for task_kill(task_id): every id ever assigned and one never assigned
KillIds == 0 .. (MaxId + 1)
\* names given to task_create by the shell commands spawn and memtest
TaskNames == {"counter"}

VARIABLES
    state,            \* task_pool[i].state
    id,               \* task_pool[i].id
    name,             \* task_pool[i].name
    sleep_until,      \* task_pool[i].sleep_until
    next,             \* task_pool[i].next
    current_task,     \* current_task
    ready_queue_head, \* ready_queue_head
    next_task_id,     \* next_task_id
    tick_count,       \* timer.c tick_count
    pc,               \* where the code of the task in slot i stands
    hung,             \* the core spins for ever in a queue walk with IRQs masked
    ret,              \* value returned by the last task_kill, page_alloc_n or kmalloc
    \* history, read by no action:
    idle,             \* timer IRQs in a row, with no call in between, that left slot i READY
    sleep_dl,         \* tick at call + ceil(ms/100) of the task_sleep slot i is in, or NULL
    woke,             \* tick of the IRQ that made the sleeper in slot i RUNNING, or NULL
    no_slot,          \* the last scheduler call was a task_create that printed "no free task slots"
    \* cmd_ps of the shell
    ps_i,             \* loop index i of cmd_ps
    ps_out,           \* the task lines cmd_ps has printed, in order
    ps_runs,          \* how many times ps was started
    ps_dead,          \* history: slots that hold a dead task since cmd_ps began
    \* memory.c
    page_bitmap,      \* the set of local page numbers whose bit is 1
    used_pages,       \* used_pages
    heap_brk,         \* heap_brk
    free_list,        \* free_list: address of the first free block header, or NULL
    hdr,              \* the block headers written so far, by header address
    call,             \* the allocator call the task in slot i is inside, with its locals
    alloc_calls,      \* how many allocating calls were begun
    held_runs,        \* history: page runs <<first local page, count>> handed to slot i
    held_blocks,      \* history: heap pointers handed to slot i and not freed
    kfree_out,        \* how the last kfree ended: "null", "bad magic" (the line it prints), "pages", "list"
    \* stacks and the interrupt entry
    sp,               \* task_pool[i].sp
    tf,               \* the trapframe init_task_trapframe built for slot i: its address and words
    irq_in,           \* the sp vectors.S passed to the last irq_handler_c
    irq_out,          \* the sp the last irq_handler_c returned to vectors.S
    \* kernel_main and the hardware it sets up
    boot,             \* the statement of kernel_main the boot core stands before
    scheduler_enabled, \* kernel.c scheduler_enabled
    irq_masked,       \* PSTATE.I of the core: IRQs are masked
    cntfrq,           \* cntfrq_el0, the counter frequency in Hz
    timer_interval,   \* timer.c timer_interval
    cntp_tval,        \* cntp_tval_el0 as last written; 0 once it has run down
    cntp_ctl,         \* cntp_ctl_el0 as last written
    \* mmu.c, followed under SpecMmu
    pt,               \* the four translation tables, by table name and index
    va,               \* the virtual address last translated
    walk,             \* what the table walk for va gave
    \* smp.c: the spinlock, followed under SpecLock
    lock,             \* scheduler_lock.lock
    lk_pc,            \* where core c stands in spin_lock / spin_unlock
    monitor,          \* core c holds the exclusive monitor for the lock word
    event,            \* the event register of core c
    waited,           \* history: core c read the lock as taken in its current spin_lock
    \* smp.c: smp_init and the secondary cores, followed under SpecSmp
    smp_pc,           \* the statement of smp_init core 0 stands before
    wbuf,             \* the stores of core 0 that have not reached memory yet, by location
    shmem,            \* smp_stacks, smp_shared_* and the spin-table slots as memory holds them
    cores,            \* cores[]: online, ticks and tasks_run of each core
    sec_pc,           \* where secondary core c stands
    sec_regs,         \* sp, ttbr0_el1, tcr_el1 and mair_el1 of secondary core c
    core_timer,       \* cntp_tval_el0 and cntp_ctl_el0 of secondary core c
    core_gic,         \* timer IRQ routing and GIC CPU interface of secondary core c
    smp_out,          \* the number of cores smp_init printed as online, or NULL
    \* fs.c, followed under SpecFs
    node_pool,        \* node_pool[]: the fs_node_t of each pool slot
    nodes_used,       \* nodes_used
    cwd,              \* cwd: pool index of the working directory
    fs_bytes,         \* the bytes stored at each file->data pointer, terminator included
    \* the shell's history and line editor (kernel.c), followed under SpecShell
    history,          \* history[][]: the command stored in each slot
    history_count,    \* history_count
    history_write,    \* history_write
    buf,              \* shell_readline: buf[0 .. pos - 1], so pos is its length
    hist_idx,         \* shell_readline: hist_idx
    saved,            \* shell_readline: saved[]
    scr,              \* the cells of the terminal row after the prompt
    recent,           \* the commands entered that a history has to hold, oldest first
    nav               \* the run of Up and Down presses under way and the line it began on

sched_vars == <<state, id, name, sleep_until, next, current_task,
                ready_queue_head, next_task_id, tick_count, pc, hung, ret>>
hist_vars == <<idle, sleep_dl, woke, no_slot>>
ps_vars == <<ps_i, ps_out, ps_runs, ps_dead>>
mem_vars == <<page_bitmap, used_pages, heap_brk, free_list, hdr>>
alloc_vars == <<mem_vars, call, alloc_calls, held_runs, held_blocks, kfree_out>>
stack_vars == <<sp, tf, irq_in, irq_out>>
boot_vars == <<boot, scheduler_enabled, irq_masked, cntfrq, timer_interval,
               cntp_tval, cntp_ctl>>
mmu_vars == <<pt, va, walk>>
lock_vars == <<lock, lk_pc, monitor, event, waited>>
\* smp.c, fs.c and the shell's line editor: followed under their own specifications
smp_vars == <<smp_pc, wbuf, shmem, cores, sec_pc, sec_regs, core_timer, core_gic, smp_out>>
fs_vars == <<node_pool, nodes_used, cwd, fs_bytes>>
shell_vars == <<history, history_count, history_write, buf, hist_idx, saved, scr, recent, nav>>
ext_vars == <<lock_vars, smp_vars, fs_vars, shell_vars>>
hw_vars == <<boot_vars, mmu_vars, ext_vars>>
vars == <<sched_vars, hist_vars, ps_vars, alloc_vars, stack_vars, hw_vars>>

\* a call made by a task leaves the saved stack pointers and the hardware alone
CallFrame == UNCHANGED <<stack_vars, hw_vars>>
\* task_create writes the sp of the new task
CreateFrame == UNCHANGED <<irq_in, irq_out, hw_vars>>

\* ---- history ----------------------------------------------------------
NoIdle == [i \in Slots |-> 0]
\* ceil(ms / 100)
SleepCeil(ms) == (ms \div 100) + (IF ms % 100 = 0 THEN 0 ELSE 1)
\* a call of the scheduler interface ends every window of undisturbed IRQs
CallHistoryLog(slot, dl, full) ==
    /\ idle' = NoIdle
    /\ sleep_dl' = IF slot = NULL THEN sleep_dl ELSE [sleep_dl EXCEPT ![slot] = dl]
    /\ woke' = IF slot = NULL THEN woke ELSE [woke EXCEPT ![slot] = NULL]
    /\ no_slot' = full
CallHistory(slot, dl) == CallHistoryLog(slot, dl, FALSE)
\* every task alive is READY or RUNNING and the interrupted one is RUNNING
AllRunnable ==
    /\ \A i \in Slots : state[i] /= TASK_BLOCKED
    /\ state[current_task] = TASK_RUNNING
IrqHistory ==
    /\ idle' = IF hung' \/ current_task = NULL \/ ~AllRunnable THEN NoIdle
               ELSE [i \in Slots |-> IF state'[i] = TASK_READY THEN idle[i] + 1 ELSE 0]
    /\ woke' = [i \in Slots |->
                 IF sleep_dl[i] /= NULL /\ woke[i] = NULL /\ state'[i] = TASK_RUNNING
                 THEN tick_count' ELSE woke[i]]
    /\ UNCHANGED <<sleep_dl, no_slot>>

\* ---- queue helpers -----------------------------------------------------

\* the walk `while (t->next) t = t->next;` of enqueue_task: the last node, or
\* NULL when the walk never ends (the links reachable from t form a cycle)
RECURSIVE enqueue_tail(_, _, _)
enqueue_tail(nx, t, fuel) ==
    IF nx[t] = NULL THEN t
    ELSE IF fuel = 0 THEN NULL
    ELSE enqueue_tail(nx, nx[t], fuel - 1)

\* enqueue_task(task) on links nx and head pointer head
enqueue_task(nx, head, task) ==
    LET n1 == [nx EXCEPT ![task] = NULL] IN
    IF head = NULL
    THEN [next |-> n1, head |-> task, hang |-> FALSE]
    ELSE LET t == enqueue_tail(n1, head, MAX_TASKS) IN
         IF t = NULL
         THEN [next |-> n1, head |-> head, hang |-> TRUE]
         ELSE [next |-> [n1 EXCEPT ![t] = task], head |-> head, hang |-> FALSE]

\* the loop of dequeue_ready_task from node task with predecessor prev
RECURSIVE dequeue_scan(_, _, _, _, _, _, _, _)
dequeue_scan(st, nx, head, su, now, task, prev, fuel) ==
    IF task = NULL
    THEN [task |-> NULL, state |-> st, next |-> nx, head |-> head, hang |-> FALSE]
    ELSE IF fuel = 0
    THEN [task |-> NULL, state |-> st, next |-> nx, head |-> head, hang |-> TRUE]
    ELSE LET st1 == IF st[task] = TASK_BLOCKED /\ now >= su[task]
                    THEN [st EXCEPT ![task] = TASK_READY]
                    ELSE st
         IN  IF st1[task] = TASK_READY
             THEN LET n1 == IF prev /= NULL
                            THEN [nx EXCEPT ![prev] = nx[task]]
                            ELSE nx
                      h1 == IF prev /= NULL THEN head ELSE nx[task]
                  IN  [task |-> task, state |-> st1,
                       next |-> [n1 EXCEPT ![task] = NULL],
                       head |-> h1, hang |-> FALSE]
             ELSE dequeue_scan(st1, nx, head, su, now, nx[task], task, fuel - 1)

dequeue_ready_task(st, nx, head, su, now) ==
    dequeue_scan(st, nx, head, su, now, head, NULL, 2 * MAX_TASKS)

\* the loop of remove_from_queue from node task with predecessor prev
RECURSIVE remove_scan(_, _, _, _, _, _)
remove_scan(nx, head, target, task, prev, fuel) ==
    IF task = NULL
    THEN [next |-> nx, head |-> head, hang |-> FALSE]
    ELSE IF fuel = 0
    THEN [next |-> nx, head |-> head, hang |-> TRUE]
    ELSE IF task = target
    THEN LET n1 == IF prev /= NULL
                   THEN [nx EXCEPT ![prev] = nx[task]]
                   ELSE nx
             h1 == IF prev /= NULL THEN head ELSE nx[task]
         IN  [next |-> [n1 EXCEPT ![task] = NULL], head |-> h1, hang |-> FALSE]
    ELSE remove_scan(nx, head, target, nx[task], task, fuel - 1)

remove_from_queue(nx, head, target) ==
    remove_scan(nx, head, target, head, NULL, 2 * MAX_TASKS)

\* ---- stacks ------------------------------------------------------------

TRAPFRAME_SIZE == 34
\* sizeof(task_t): sp, stack[1024], state, id, name[32], sleep_until, next
TaskSize == 8 + 8192 + 4 + 4 + 32 + 8 + 8
\* &task_pool[0], in .bss
TaskPoolAddr == 1048576 + 65536
\* the top of the stack kernel_main runs on, which task 0 keeps
BootStackTop == 524288
\* &task->stack[0] and &task->stack[1024] with task_pool at address pool
StackBaseAt(pool, task) == pool + task * TaskSize + 8
StackEndAt(pool, task) == StackBaseAt(pool, task) + 8 * 1024
\* &task->stack[1024] & ~0xF
StackTopAt(pool, task) ==
    LET top == StackEndAt(pool, task)
    IN top - (top % 16)
StackTop(task) == StackTopAt(TaskPoolAddr, task)
\* init_task_trapframe: the sp it stores, 34 words below the aligned top
init_task_trapframe(task) == StackTop(task) - 8 * TRAPFRAME_SIZE

\* (unsigned long)task_exit_trampoline, in .text
TrampolineAddr == 528384
\* the entry point task_create is given along with the name
EntryOf(nm) == IF nm = "counter" THEN 532480 ELSE 536576
\* no trapframe built yet
NoFrames == [i \in Slots |-> [at |-> 0, w |-> <<>>]]
\* SPSR_EL1 values: EL1h with IRQs unmasked, and with PSTATE.I set
SPSR_EL1h == 5
SPSR_EL1h_I == 133

\* the words init_task_trapframe stores: the loop tf[i] = 0, then x30, ELR
\* and SPSR
TrapframeWords(entry, spsr) ==
    [[k \in 0 .. (TRAPFRAME_SIZE - 1) |-> 0]
        EXCEPT ![30] = TrampolineAddr, ![31] = entry, ![32] = spsr]

\* init_task_trapframe with `tf[32] = 0x85`
trapframe_irq_masked(task, entry) ==
    [at |-> init_task_trapframe(task), w |-> TrapframeWords(entry, SPSR_EL1h_I)]

\* init_task_trapframe: where the frame is written and what it holds
trapframe(task, entry) ==
    [at |-> init_task_trapframe(task), w |-> TrapframeWords(entry, SPSR_EL1h)]

\* bytes of stack in use at the interrupted instruction, by where the code
\* stands: in its own loop, in the wfi loop of task_sleep or task_exit, in cmd_ps
StackInUse(p) ==
    CASE p = "run" -> 64
      [] p = "sleep" -> 96
      [] p = "exit" -> 80
      [] OTHER -> 128
\* the context the core executes: the boot context until a task is dispatched
Running == IF current_task = NULL THEN 0 ELSE current_task
\* the sp vectors.S passes to irq_handler_c: the trapframe it pushed on the
\* stack of the interrupted context
IrqSp ==
    (IF Running = 0 THEN BootStackTop ELSE StackTop(Running))
        - StackInUse(pc[Running]) - 8 * TRAPFRAME_SIZE

\* ---- scheduler_init ----------------------------------------------------

scheduler_init ==
    /\ state = [i \in Slots |-> IF i = 0 THEN TASK_RUNNING ELSE TASK_DEAD]
    /\ id = [i \in Slots |-> 0]
    /\ name = [i \in Slots |-> IF i = 0 THEN "shell" ELSE ""]
    /\ sleep_until = [i \in Slots |-> 0]
    /\ next = [i \in Slots |-> NULL]
    /\ ready_queue_head = NULL
    /\ next_task_id = 1
    /\ current_task = 0
    /\ sp = [i \in Slots |-> 0]
    /\ tf = NoFrames

\* ---- memory_init -------------------------------------------------------

BitmapSize == MANAGED_PAGES \div 8
\* pages_start: the first page boundary at or after the end of the bitmap
first_free_page == (BITMAP_ADDR + BitmapSize + PAGE_SIZE - 1) \div PAGE_SIZE
heap_start == first_free_page * PAGE_SIZE
heap_end == heap_start + HEAP_PAGES * PAGE_SIZE
total_pages == MANAGED_PAGES
NoCall == [op |-> "none", size |-> 0, count |-> 0, i |-> NULL,
           blk |-> NULL, prev |-> NULL]

memory_init ==
    /\ page_bitmap = 0 .. (HEAP_PAGES - 1)
    /\ used_pages = HEAP_PAGES
    /\ heap_brk = heap_start
    /\ free_list = NULL
    /\ hdr = [a \in {} |-> 0]

\* ---- timer.c ------------------------------------------------------------

\* cntfrq_el0 of the Raspberry Pi 4
PiFreq == 54000000
\* timer_init(interval_ms): the interval it computes and stores
TimerInterval(freq, interval_ms) == (freq \div 1000) * interval_ms

\* timer_handle_irq without the write of cntp_tval_el0
timer_handle_irq_no_rearm ==
    /\ tick_count' = tick_count + 1
    /\ cntp_tval' = 0

timer_handle_irq ==
    /\ tick_count' = tick_count + 1
    /\ cntp_tval' = IF timer_interval = 0
                    THEN (cntfrq \div 1000) * 100
                    ELSE timer_interval

\* ---- kernel_main ---------------------------------------------------------

\* kernel_main has reached its command loop: timer_init(100) is done, the
\* scheduler is enabled and IRQs are unmasked
kernel_booted ==
    /\ boot = "shell"
    /\ scheduler_enabled = TRUE
    /\ irq_masked = FALSE
    /\ cntfrq = PiFreq
    /\ timer_interval = TimerInterval(PiFreq, 100)
    /\ cntp_tval = TimerInterval(PiFreq, 100)
    /\ cntp_ctl = 1

\* ---- smp.c: what is not followed outside its own specification ----------

\* smp.h NUM_CORES
NUM_CORES == 4
\* the cores that contend for the lock
MaxLockCores == 3
LockCores == 0 .. (MaxLockCores - 1)
\* SPINLOCK_INIT, no core inside spin_lock, no monitor held, no event pending
LockInit ==
    /\ lock = 0
    /\ lk_pc = [c \in LockCores |-> "out"]
    /\ monitor = [c \in LockCores |-> FALSE]
    /\ event = [c \in LockCores |-> FALSE]
    /\ waited = [c \in LockCores |-> FALSE]

\* the cores other than core 0
Secondaries == 1 .. (NUM_CORES - 1)
\* .bss before smp_init is called; the secondary cores wait in the spin table
SmpInit ==
    /\ smp_pc = "cores"
    /\ wbuf = << >>
    /\ shmem = [stacks |-> [c \in 0 .. (NUM_CORES - 1) |-> 0],
                shared |-> [ttbr0 |-> 0, tcr |-> 0, mair |-> 0],
                slot |-> [c \in Secondaries |-> 0]]
    /\ cores = [c \in 0 .. (NUM_CORES - 1) |-> [online |-> 0, ticks |-> 0, tasks_run |-> 0]]
    /\ sec_pc = [c \in Secondaries |-> "parked"]
    /\ sec_regs = [c \in Secondaries |-> [sp |-> 0, ttbr0 |-> 0, tcr |-> 0, mair |-> 0]]
    /\ core_timer = [c \in Secondaries |-> [tval |-> 0, ctl |-> 0]]
    /\ core_gic = [c \in Secondaries |-> [route |-> 0, ctlr |-> 0, pmr |-> 0]]
    /\ smp_out = NULL

\* FS_MAX_NODES, FS_NAME_MAX and FS_MAX_DATA of fs.h, scaled down
FS_MAX_NODES == 4
FS_NAME_MAX == 3
FS_MAX_DATA == 2
FS_FILE == "FS_FILE"
FS_DIR == "FS_DIR"
\* root: fs_init takes the first pool slot for it
root == 0
\* fs_strncpy(dst, src, n)
fs_strncpy(src, n) == IF Len(src) <= n THEN src ELSE SubSeq(src, 1, n)
\* a pool slot as the loop of fs_init leaves it
EmptyNode == [name |-> << >>, type |-> FS_DIR, parent |-> NULL, children |-> NULL,
              next_sibling |-> NULL, data |-> NULL, size |-> 0]
\* what alloc_node(name, type) writes to the slot it takes
NewNode(nm, type) == [EmptyNode EXCEPT !.name = fs_strncpy(nm, FS_NAME_MAX - 1), !.type = type]
\* fs_init()
fs_init ==
    /\ node_pool = [i \in 0 .. (FS_MAX_NODES - 1) |->
                      IF i = root THEN [NewNode(<<"/">>, FS_DIR) EXCEPT !.parent = root]
                      ELSE EmptyNode]
    /\ nodes_used = 1
    /\ cwd = root
    /\ fs_bytes = << >>

\* HISTORY_SIZE and LINE_MAX of kernel.c, scaled
HISTORY_SIZE == 3
LINE_MAX == 3
\* a blank terminal row: a line holds at most LINE_MAX - 1 characters
BlankRow == [i \in 0 .. (LINE_MAX - 2) |-> " "]
\* no run of arrow keys under way
NoNav == [ups |-> 0, downs |-> 0, orig |-> << >>]
\* the history as the loader leaves it (zeroed .bss) and the first call of
\* shell_readline up to its loop
ShellInit ==
    /\ history = [i \in 0 .. (HISTORY_SIZE - 1) |-> << >>]
    /\ history_count = 0
    /\ history_write = 0
    /\ buf = << >>
    /\ hist_idx = -1
    /\ saved = << >>
    /\ scr = BlankRow
    /\ recent = << >>
    /\ nav = NoNav
ExtInit ==
    /\ LockInit
    /\ SmpInit
    /\ fs_init
    /\ ShellInit

\* the tables are followed under SpecMmu only; elsewhere they are left out
NoTables == [on |-> FALSE, ttbr0 |-> NULL, mair |-> 0, tables |-> <<>>]
\* no address has been translated
NoVa == [l0 |-> NULL, l1 |-> NULL, l2 |-> NULL, off |-> NULL]
NoWalk == [done |-> FALSE, fault |-> FALSE, block |-> NULL, off |-> NULL,
           attr |-> NULL, type |-> NULL, sh |-> NULL]

Init ==
    /\ memory_init
    /\ call = [i \in Slots |-> NoCall]
    /\ alloc_calls = 0
    /\ held_runs = [i \in Slots |-> {}]
    /\ held_blocks = [i \in Slots |-> {}]
    /\ kfree_out = "none"
    /\ scheduler_init
    /\ tick_count = 0
    /\ pc = [i \in Slots |-> "run"]
    /\ hung = FALSE
    /\ ret = 0
    /\ idle = NoIdle
    /\ sleep_dl = [i \in Slots |-> NULL]
    /\ woke = [i \in Slots |-> NULL]
    /\ no_slot = FALSE
    /\ ps_i = 0
    /\ ps_out = <<>>
    /\ ps_runs = 0
    /\ ps_dead = {}
    /\ irq_in = 0
    /\ irq_out = 0
    /\ kernel_booted
    /\ pt = NoTables
    /\ va = NoVa
    /\ walk = NoWalk
    /\ ExtInit

\* the task whose code the core executes may make a call
CanCall == ~hung /\ pc[current_task] = "run"

\* ---- task_create -------------------------------------------------------

FreeSlots == {i \in Slots : state[i] = TASK_DEAD}
MinOf(S) == CHOOSE x \in S : \A y \in S : x <= y

\* task_create without the increment in `next_task_id++`
task_create_same_id(nm) ==
    /\ CanCall
    /\ next_task_id <= MaxId
    /\ IF FreeSlots = {}
       THEN UNCHANGED <<sched_vars, sp, tf>> /\ CallHistoryLog(NULL, NULL, TRUE)
       ELSE LET task == MinOf(FreeSlots)
                e == enqueue_task(next, ready_queue_head, task)
            IN  /\ id' = [id EXCEPT ![task] = next_task_id]
                /\ next_task_id' = next_task_id
                /\ state' = [state EXCEPT ![task] = TASK_READY]
                /\ sleep_until' = [sleep_until EXCEPT ![task] = 0]
                /\ name' = [name EXCEPT ![task] = nm]
                /\ pc' = [pc EXCEPT ![task] = "run"]
                /\ next' = e.next
                /\ ready_queue_head' = e.head
                /\ hung' = e.hang
                /\ sp' = [sp EXCEPT ![task] = init_task_trapframe(task)]
                /\ tf' = [tf EXCEPT ![task] = trapframe(task, EntryOf(nm))]
                /\ UNCHANGED <<current_task, tick_count, ret>>
                /\ CallHistory(task, NULL)

\* task_create with `next_task_id++` done before the search for a free slot
task_create_count_first(nm, cap) ==
    /\ CanCall
    /\ next_task_id <= cap
    /\ IF FreeSlots = {}
       THEN /\ next_task_id' = next_task_id + 1
            /\ UNCHANGED <<state, id, name, sleep_until, next, current_task,
                           ready_queue_head, tick_count, pc, hung, ret, sp, tf>>
            /\ CallHistoryLog(NULL, NULL, TRUE)
       ELSE LET task == MinOf(FreeSlots)
                e == enqueue_task(next, ready_queue_head, task)
            IN  /\ id' = [id EXCEPT ![task] = next_task_id]
                /\ next_task_id' = next_task_id + 1
                /\ state' = [state EXCEPT ![task] = TASK_READY]
                /\ sleep_until' = [sleep_until EXCEPT ![task] = 0]
                /\ name' = [name EXCEPT ![task] = nm]
                /\ pc' = [pc EXCEPT ![task] = "run"]
                /\ next' = e.next
                /\ ready_queue_head' = e.head
                /\ hung' = e.hang
                /\ sp' = [sp EXCEPT ![task] = init_task_trapframe(task)]
                /\ tf' = [tf EXCEPT ![task] = trapframe(task, EntryOf(nm))]
                /\ UNCHANGED <<current_task, tick_count, ret>>
                /\ CallHistory(task, NULL)

\* task_create(entry_point, nm), called while next_task_id <= cap
task_create_upto(nm, cap) ==
    /\ CanCall
    /\ next_task_id <= cap
    /\ IF FreeSlots = {}
       THEN UNCHANGED <<sched_vars, sp, tf>> /\ CallHistoryLog(NULL, NULL, TRUE)
       ELSE LET task == MinOf(FreeSlots)
                e == enqueue_task(next, ready_queue_head, task)
            IN  /\ id' = [id EXCEPT ![task] = next_task_id]
                /\ next_task_id' = next_task_id + 1
                /\ state' = [state EXCEPT ![task] = TASK_READY]
                /\ sleep_until' = [sleep_until EXCEPT ![task] = 0]
                /\ name' = [name EXCEPT ![task] = nm]
                /\ pc' = [pc EXCEPT ![task] = "run"]
                /\ next' = e.next
                /\ ready_queue_head' = e.head
                /\ hung' = e.hang
                /\ sp' = [sp EXCEPT ![task] = init_task_trapframe(task)]
                /\ tf' = [tf EXCEPT ![task] = trapframe(task, EntryOf(nm))]
                /\ UNCHANGED <<current_task, tick_count, ret>>
                /\ CallHistory(task, NULL)

task_create(nm) == task_create_upto(nm, MaxId)

\* ---- task_kill ---------------------------------------------------------

\* the pool entries the loop of task_kill can stop at
KillMatches(task_id) == {i \in Slots : id[i] = task_id /\ state[i] /= TASK_DEAD}

\* task_kill without the test `&pool[i] == current_task`
task_kill_self(task_id) ==
    /\ CanCall
    /\ IF KillMatches(task_id) = {}
       THEN /\ ret' = -1
            /\ UNCHANGED <<state, id, name, sleep_until, next, current_task,
                           ready_queue_head, next_task_id, tick_count, pc, hung>>
            /\ CallHistory(NULL, NULL)
       ELSE LET i == MinOf(KillMatches(task_id)) IN
            IF i = 0
            THEN /\ ret' = -1
                 /\ UNCHANGED <<state, id, name, sleep_until, next, current_task,
                                ready_queue_head, next_task_id, tick_count, pc, hung>>
                 /\ CallHistory(NULL, NULL)
            ELSE LET r == remove_from_queue(next, ready_queue_head, i) IN
                 IF r.hang
                 THEN /\ hung' = TRUE
                      /\ UNCHANGED <<state, id, name, sleep_until, next, current_task,
                                     ready_queue_head, next_task_id, tick_count, pc, ret>>
                      /\ CallHistory(NULL, NULL)
                 ELSE /\ next' = [r.next EXCEPT ![i] = NULL]
                      /\ ready_queue_head' = r.head
                      /\ state' = [state EXCEPT ![i] = TASK_DEAD]
                      /\ ret' = 0
                      /\ UNCHANGED <<id, name, sleep_until, current_task,
                                     next_task_id, tick_count, pc, hung>>
                      /\ CallHistory(i, NULL)

task_kill(task_id) ==
    /\ CanCall
    /\ IF KillMatches(task_id) = {}
       THEN /\ ret' = -1
            /\ UNCHANGED <<state, id, name, sleep_until, next, current_task,
                           ready_queue_head, next_task_id, tick_count, pc, hung>>
            /\ CallHistory(NULL, NULL)
       ELSE LET i == MinOf(KillMatches(task_id)) IN
            IF i = 0 \/ i = current_task
            THEN /\ ret' = -1
                 /\ UNCHANGED <<state, id, name, sleep_until, next, current_task,
                                ready_queue_head, next_task_id, tick_count, pc, hung>>
                 /\ CallHistory(NULL, NULL)
            ELSE LET r == remove_from_queue(next, ready_queue_head, i) IN
                 IF r.hang
                 THEN /\ hung' = TRUE
                      /\ UNCHANGED <<state, id, name, sleep_until, next, current_task,
                                     ready_queue_head, next_task_id, tick_count, pc, ret>>
                      /\ CallHistory(NULL, NULL)
                 ELSE /\ next' = [r.next EXCEPT ![i] = NULL]
                      /\ ready_queue_head' = r.head
                      /\ state' = [state EXCEPT ![i] = TASK_DEAD]
                      /\ ret' = 0
                      /\ UNCHANGED <<id, name, sleep_until, current_task,
                                     next_task_id, tick_count, pc, hung>>
                      /\ CallHistory(i, NULL)

\* ---- task_sleep --------------------------------------------------------

\* An unsigned int is held as two 16-bit limbs hi, lo (value hi * Limb + lo).
Limb == 65536
\* ms + 99 in unsigned int: the carry out of the high limb is lost
UAdd99(hi, lo) == <<(hi + (lo + 99) \div Limb) % Limb, (lo + 99) % Limb>>
\* (hi * Limb + lo) / 100 by long division
UDiv100(hi, lo) == (hi \div 100) * Limb + ((hi % 100) * Limb + lo) \div 100
\* unsigned long ticks = (ms + 99) / 100
SleepTicksU(hi, lo) == UDiv100(UAdd99(hi, lo)[1], UAdd99(hi, lo)[2])
SleepTicks(ms) == SleepTicksU(ms \div Limb, ms % Limb)

task_sleep(ms) ==
    /\ CanCall
    /\ LET e == enqueue_task(next, ready_queue_head, current_task) IN
       /\ sleep_until' = [sleep_until EXCEPT ![current_task] = tick_count + SleepTicks(ms)]
       /\ state' = [state EXCEPT ![current_task] = TASK_BLOCKED]
       /\ next' = e.next
       /\ ready_queue_head' = e.head
       /\ hung' = e.hang
       /\ pc' = [pc EXCEPT ![current_task] = "sleep"]
       /\ UNCHANGED <<id, name, current_task, next_task_id, tick_count, ret>>
       /\ CallHistory(current_task, tick_count + SleepCeil(ms))

\* `while (current_task->state == TASK_BLOCKED) wfi;` is left: task_sleep returns
task_sleep_return ==
    /\ ~hung
    /\ pc[current_task] = "sleep"
    /\ state[current_task] /= TASK_BLOCKED
    /\ pc' = [pc EXCEPT ![current_task] = "run"]
    /\ UNCHANGED <<state, id, name, sleep_until, next, current_task,
                   ready_queue_head, next_task_id, tick_count, hung, ret>>
    /\ sleep_dl' = [sleep_dl EXCEPT ![current_task] = NULL]
    /\ woke' = [woke EXCEPT ![current_task] = NULL]
    /\ UNCHANGED <<idle, no_slot>>

\* ---- task_exit, task_exit_trampoline -----------------------------------

\* Task 0 is the adopted boot context: kernel_main never returns and never
\* calls task_exit, and no trampoline is installed for it.
task_exit ==
    /\ CanCall
    /\ current_task /= 0
    /\ state' = [state EXCEPT ![current_task] = TASK_DEAD]
    /\ pc' = [pc EXCEPT ![current_task] = "exit"]
    /\ UNCHANGED <<id, name, sleep_until, next, current_task,
                   ready_queue_head, next_task_id, tick_count, hung, ret>>
    /\ CallHistory(NULL, NULL)

\* the entry function returns to x30 = task_exit_trampoline
task_exit_trampoline ==
    /\ CanCall
    /\ current_task /= 0
    /\ state' = [state EXCEPT ![current_task] = TASK_DEAD]
    /\ pc' = [pc EXCEPT ![current_task] = "exit"]
    /\ UNCHANGED <<id, name, sleep_until, next, current_task,
                   ready_queue_head, next_task_id, tick_count, hung, ret>>
    /\ CallHistory(NULL, NULL)

\* ---- schedule_irq ------------------------------------------------------

\* schedule_irq without `prev->state = TASK_READY`
schedule_irq_keep_running(now) ==
    LET prev == current_task
        requeue == state[prev] = TASK_RUNNING
        st1 == state
        e == IF requeue
             THEN enqueue_task(next, ready_queue_head, prev)
             ELSE [next |-> next, head |-> ready_queue_head, hang |-> FALSE]
        d == dequeue_ready_task(st1, e.next, e.head, sleep_until, now)
    IN  IF e.hang
        THEN /\ state' = st1
             /\ next' = e.next
             /\ hung' = TRUE
             /\ UNCHANGED <<ready_queue_head, current_task>>
        ELSE IF d.hang
        THEN /\ state' = st1
             /\ next' = e.next
             /\ ready_queue_head' = e.head
             /\ hung' = TRUE
             /\ UNCHANGED current_task
        ELSE IF d.task = NULL
        THEN /\ state' = [d.state EXCEPT ![prev] = TASK_RUNNING]
             /\ next' = d.next
             /\ ready_queue_head' = d.head
             /\ current_task' = prev
             /\ UNCHANGED hung
        ELSE /\ state' = [d.state EXCEPT ![d.task] = TASK_RUNNING]
             /\ next' = d.next
             /\ ready_queue_head' = d.head
             /\ current_task' = d.task
             /\ UNCHANGED hung

\* schedule_irq with timer_get_tick_count() = now
schedule_irq(now) ==
    LET prev == current_task
        requeue == state[prev] = TASK_RUNNING
        st1 == IF requeue THEN [state EXCEPT ![prev] = TASK_READY] ELSE state
        e == IF requeue
             THEN enqueue_task(next, ready_queue_head, prev)
             ELSE [next |-> next, head |-> ready_queue_head, hang |-> FALSE]
        d == dequeue_ready_task(st1, e.next, e.head, sleep_until, now)
    IN  IF e.hang
        THEN /\ state' = st1
             /\ next' = e.next
             /\ hung' = TRUE
             /\ UNCHANGED <<ready_queue_head, current_task>>
        ELSE IF d.hang
        THEN /\ state' = st1
             /\ next' = e.next
             /\ ready_queue_head' = e.head
             /\ hung' = TRUE
             /\ UNCHANGED current_task
        ELSE IF d.task = NULL
        THEN /\ state' = [d.state EXCEPT ![prev] = TASK_RUNNING]
             /\ next' = d.next
             /\ ready_queue_head' = d.head
             /\ current_task' = prev
             /\ UNCHANGED hung
        ELSE /\ state' = [d.state EXCEPT ![d.task] = TASK_RUNNING]
             /\ next' = d.next
             /\ ready_queue_head' = d.head
             /\ current_task' = d.task
             /\ UNCHANGED hung

\* schedule_irq(old_sp) without `current_task->sp = old_sp`
schedule_irq_from_stale(now, old_sp) ==
    IF current_task = NULL
    THEN /\ irq_out' = old_sp
         /\ UNCHANGED <<state, next, ready_queue_head, current_task, hung, sp, tf>>
    ELSE /\ schedule_irq(now)
         /\ sp' = sp
         /\ irq_out' = IF hung' THEN irq_out ELSE sp'[current_task']

\* schedule_irq(old_sp) whole: the test of current_task, the sp stored and
\* the sp returned around the TCB and queue changes of schedule_irq(now)
schedule_irq_from(now, old_sp) ==
    IF current_task = NULL
    THEN /\ irq_out' = old_sp
         /\ UNCHANGED <<state, next, ready_queue_head, current_task, hung, sp, tf>>
    ELSE /\ schedule_irq(now)
         /\ sp' = [sp EXCEPT ![current_task] = old_sp]
         /\ irq_out' = IF hung' THEN irq_out ELSE sp'[current_task']

\* irq_handler_c on a timer expiry (cntp_ctl_el0 has ISTATUS set):
\* timer_handle_irq, then schedule_irq if the scheduler is enabled.  The IRQ
\* is taken only with PSTATE.I clear and the timer enabled.
TimerIRQ ==
    /\ ~hung
    /\ ~irq_masked
    /\ cntp_ctl = 1
    /\ tick_count < MaxTick
    /\ timer_handle_irq
    /\ irq_in' = IrqSp
    /\ UNCHANGED tf
    /\ IF scheduler_enabled
       THEN schedule_irq_from(tick_count + 1, IrqSp)
       ELSE /\ irq_out' = IrqSp
            /\ UNCHANGED <<state, next, ready_queue_head, current_task, hung, sp, tf>>
    /\ UNCHANGED <<id, name, sleep_until, next_task_id, pc, ret>>
    /\ UNCHANGED <<boot, scheduler_enabled, irq_masked, cntfrq, timer_interval,
                   cntp_ctl, mmu_vars, ext_vars>>
    /\ IrqHistory

Next ==
    \/ (\E nm \in TaskNames : task_create(nm)) /\ UNCHANGED <<ps_vars, alloc_vars>> /\ CreateFrame
    \/ (\E task_id \in KillIds : task_kill(task_id)) /\ UNCHANGED <<ps_vars, alloc_vars>> /\ CallFrame
    \/ (\E ms \in SleepMs : task_sleep(ms)) /\ UNCHANGED <<ps_vars, alloc_vars>> /\ CallFrame
    \/ task_sleep_return /\ UNCHANGED <<ps_vars, alloc_vars>> /\ CallFrame
    \/ task_exit /\ UNCHANGED <<ps_vars, alloc_vars>> /\ CallFrame
    \/ task_exit_trampoline /\ UNCHANGED <<ps_vars, alloc_vars>> /\ CallFrame
    \/ TimerIRQ /\ UNCHANGED <<ps_vars, alloc_vars>>

Spec == Init /\ [][Next]_vars

\* ---- cmd_ps -----------------------------------------------------------

\* the shell command ps is entered: process_command calls cmd_ps
cmd_ps ==
    /\ CanCall
    /\ current_task = 0
    /\ ps_runs < MaxPs
    /\ ps_runs' = ps_runs + 1
    /\ pc' = [pc EXCEPT ![0] = "ps_test"]
    /\ ps_i' = 0
    /\ ps_out' = <<>>
    /\ ps_dead' = {i \in Slots : state[i] = TASK_DEAD /\ name[i] /= ""}
    /\ UNCHANGED <<state, id, name, sleep_until, next, current_task,
                   ready_queue_head, next_task_id, tick_count, hung, ret>>
    /\ UNCHANGED <<hist_vars, stack_vars, hw_vars, alloc_vars>>

\* the loop of cmd_ps without its second `continue`
cmd_ps_test_all ==
    /\ ~hung
    /\ current_task = 0
    /\ pc[0] = "ps_test"
    /\ IF ps_i = MAX_TASKS
       THEN pc' = [pc EXCEPT ![0] = "run"] /\ UNCHANGED ps_i
       ELSE IF state[ps_i] = TASK_DEAD /\ name[ps_i] = ""
       THEN ps_i' = ps_i + 1 /\ UNCHANGED pc
       ELSE pc' = [pc EXCEPT ![0] = "ps_print"] /\ UNCHANGED ps_i
    /\ UNCHANGED <<state, id, name, sleep_until, next, current_task,
                   ready_queue_head, next_task_id, tick_count, hung, ret>>
    /\ UNCHANGED <<hist_vars, stack_vars, hw_vars, alloc_vars, ps_out, ps_runs, ps_dead>>

\* the two `continue` tests of the loop body, and the loop condition after them
cmd_ps_test ==
    /\ ~hung
    /\ current_task = 0
    /\ pc[0] = "ps_test"
    /\ IF ps_i = MAX_TASKS
       THEN pc' = [pc EXCEPT ![0] = "run"] /\ UNCHANGED ps_i
       ELSE IF \/ state[ps_i] = TASK_DEAD /\ name[ps_i] = ""
               \/ state[ps_i] = TASK_DEAD /\ ps_i /= 0
       THEN ps_i' = ps_i + 1 /\ UNCHANGED pc
       ELSE pc' = [pc EXCEPT ![0] = "ps_print"] /\ UNCHANGED ps_i
    /\ UNCHANGED <<state, id, name, sleep_until, next, current_task,
                   ready_queue_head, next_task_id, tick_count, hung, ret>>
    /\ UNCHANGED <<hist_vars, stack_vars, hw_vars, alloc_vars, ps_out, ps_runs, ps_dead>>

\* the line of pool[i] is printed: id, name, state_name(state)
cmd_ps_print ==
    /\ ~hung
    /\ current_task = 0
    /\ pc[0] = "ps_print"
    /\ ps_out' = Append(ps_out, [slot |-> ps_i, id |-> id[ps_i],
                                 name |-> name[ps_i], state |-> state[ps_i]])
    /\ ps_i' = ps_i + 1
    /\ pc' = [pc EXCEPT ![0] = "ps_test"]
    /\ UNCHANGED <<state, id, name, sleep_until, next, current_task,
                   ready_queue_head, next_task_id, tick_count, hung, ret>>
    /\ UNCHANGED <<hist_vars, stack_vars, hw_vars, alloc_vars, ps_runs, ps_dead>>

\* history: a slot leaves ps_dead when its TCB stops being DEAD
PsDeadHistory ==
    /\ ps_dead' = {i \in ps_dead : state'[i] = TASK_DEAD}
    /\ UNCHANGED <<ps_i, ps_out, ps_runs, alloc_vars>>

NextPs ==
    \/ (\E nm \in TaskNames : task_create(nm)) /\ PsDeadHistory /\ CreateFrame
    \/ (\E task_id \in KillIds : task_kill(task_id)) /\ PsDeadHistory /\ CallFrame
    \/ (\E ms \in SleepMs : task_sleep(ms)) /\ PsDeadHistory /\ CallFrame
    \/ task_sleep_return /\ PsDeadHistory /\ CallFrame
    \/ task_exit /\ PsDeadHistory /\ CallFrame
    \/ task_exit_trampoline /\ PsDeadHistory /\ CallFrame
    \/ tick_count < MaxPsTick /\ TimerIRQ /\ PsDeadHistory
    \/ cmd_ps
    \/ cmd_ps_test
    \/ cmd_ps_print

SpecPs == Init /\ [][NextPs]_vars

\* ---- the task pool filled ------------------------------------------------

\* the ids tried for task_kill: of the task that took the last slot, and of no task
PoolKillIds == {MAX_TASKS - 1, MAX_TASKS + 1}

\* the shell spawns tasks until the pool is full and beyond; tasks exit, are
\* killed, and the timer IRQ switches between them
NextPool ==
    \/ (\E nm \in TaskNames : task_create_upto(nm, MaxPoolId)) /\ UNCHANGED <<ps_vars, alloc_vars>> /\ CreateFrame
    \/ (\E task_id \in PoolKillIds : task_kill(task_id)) /\ UNCHANGED <<ps_vars, alloc_vars>> /\ CallFrame
    \/ task_exit /\ UNCHANGED <<ps_vars, alloc_vars>> /\ CallFrame
    \/ tick_count < MaxPoolTick /\ TimerIRQ /\ UNCHANGED <<ps_vars, alloc_vars>>

SpecPool == Init /\ [][NextPool]_vars

\* ---- memory.c: the page allocator and the heap --------------------------
\*
\* memory.c masks no interrupt and takes no lock, so the timer IRQ can switch
\* tasks inside a call.  Each allocating call is split once, between the last
\* read of the shared data that decides its result and its first write; a
\* finer split adds interleavings and removes none.

bitmap_test(bm, local) == IF local >= MANAGED_PAGES THEN TRUE ELSE local \in bm
bitmap_set(bm, local) == IF local < MANAGED_PAGES THEN bm \cup {local} ELSE bm
bitmap_clear(bm, local) == IF local < MANAGED_PAGES THEN bm \ {local} ELSE bm

\* the address page_alloc_n returns for local page i
PageAddr(i) == (first_free_page + i) * PAGE_SIZE

\* the search loop of page_alloc_n from index i: the first index of a run of
\* count clear bits, or NULL when the loop condition fails
RECURSIVE page_scan(_, _, _)
page_scan(bm, count, i) ==
    IF i + count > total_pages THEN NULL
    ELSE LET taken == {j \in 0 .. (count - 1) : bitmap_test(bm, i + j)}
         IN IF taken = {} THEN i ELSE page_scan(bm, count, i + MinOf(taken) + 1)

\* the marking loop of page_alloc_n: bitmap_set(i + j); used_pages++
RECURSIVE page_mark(_, _, _, _)
page_mark(bm, used, i, count) ==
    IF count = 0 THEN [bitmap |-> bm, used |-> used]
    ELSE page_mark(bitmap_set(bm, i), used + 1, i + 1, count - 1)

\* the loop of page_free_n without `used_pages--`
RECURSIVE page_unmark_no_count(_, _, _, _)
page_unmark_no_count(bm, used, local, count) ==
    IF count = 0 THEN [bitmap |-> bm, used |-> used]
    ELSE IF bitmap_test(bm, local)
         THEN page_unmark_no_count(bitmap_clear(bm, local), used, local + 1, count - 1)
         ELSE page_unmark_no_count(bm, used, local + 1, count - 1)

\* the loop of page_free_n from local page number local
RECURSIVE page_unmark(_, _, _, _)
page_unmark(bm, used, local, count) ==
    IF count = 0 THEN [bitmap |-> bm, used |-> used]
    ELSE IF bitmap_test(bm, local)
         THEN page_unmark(bitmap_clear(bm, local), used - 1, local + 1, count - 1)
         ELSE page_unmark(bm, used, local + 1, count - 1)

\* page_free_n(addr, count) on bitmap bm and counter used
page_free_n(bm, used, addr, count) ==
    LET page == addr \div PAGE_SIZE
    IN IF page < first_free_page THEN [bitmap |-> bm, used |-> used]
       ELSE page_unmark(bm, used, page - first_free_page, count)

AllocCanCall == CanCall /\ call[current_task].op = "none"
InCall(op) == ~hung /\ pc[current_task] = "run" /\ call[current_task].op = op

\* page_alloc_n(count) up to `if (found)`: nothing is written yet
page_alloc_n_scan(count) ==
    /\ AllocCanCall
    /\ alloc_calls < MaxAllocCalls
    /\ alloc_calls' = alloc_calls + 1
    /\ LET i == page_scan(page_bitmap, count, 0)
       IN call' = IF i = NULL THEN call
                  ELSE [call EXCEPT ![current_task] =
                           [NoCall EXCEPT !.op = "page_alloc_n", !.count = count, !.i = i]]
    /\ UNCHANGED <<mem_vars, held_runs, held_blocks, kfree_out>>

\* page_alloc_n from `if (found)`: the bits are set, used_pages counted, the address returned
page_alloc_n_mark ==
    /\ InCall("page_alloc_n")
    /\ LET c == call[current_task]
           m == page_mark(page_bitmap, used_pages, c.i, c.count)
       IN /\ page_bitmap' = m.bitmap
          /\ used_pages' = m.used
          /\ held_runs' = [held_runs EXCEPT ![current_task] = @ \cup {<<c.i, c.count>>}]
    /\ call' = [call EXCEPT ![current_task] = NoCall]
    /\ UNCHANGED <<heap_brk, free_list, hdr, alloc_calls, held_blocks, kfree_out>>

\* page_free_n(addr, count) by the task that was handed the run
page_free_n_call ==
    /\ AllocCanCall
    /\ \E run \in held_runs[current_task] :
          LET m == page_free_n(page_bitmap, used_pages, PageAddr(run[1]), run[2])
          IN /\ page_bitmap' = m.bitmap
             /\ used_pages' = m.used
             /\ held_runs' = [held_runs EXCEPT ![current_task] = @ \ {run}]
    /\ UNCHANGED <<heap_brk, free_list, hdr, call, alloc_calls, held_blocks, kfree_out>>

\* the free-list walk of kmalloc from block blk: the first block whose size
\* is at least size, with its predecessor; blk is NULL when the walk ends
\* without one; hang when the walk never ends
RECURSIVE first_fit(_, _, _, _, _)
first_fit(h, blk, prev, size, fuel) ==
    IF blk = NULL THEN [blk |-> NULL, prev |-> prev, hang |-> FALSE]
    ELSE IF fuel = 0 THEN [blk |-> NULL, prev |-> prev, hang |-> TRUE]
    ELSE IF h[blk].size >= size THEN [blk |-> blk, prev |-> prev, hang |-> FALSE]
    ELSE first_fit(h, h[blk].next, blk, size, fuel - 1)

\* size = (size + 15) & ~15UL
RoundSize(size) == ((size + 15) \div 16) * 16
\* pages = (total + PAGE_SIZE - 1) / PAGE_SIZE
PagesFor(total) == (total + PAGE_SIZE - 1) \div PAGE_SIZE
\* the header kmalloc writes
Header(size, pages) ==
    [size |-> size, magic |-> BLOCK_MAGIC, next |-> NULL, is_page_alloc |-> pages]
\* memory with the header at address a written
WriteHeader(h, a, rec) == [x \in DOMAIN h \cup {a} |-> IF x = a THEN rec ELSE h[x]]

\* kmalloc(size) up to the point where its path and its block are chosen:
\* the page path up to `if (found)` of page_alloc_n, the free-list walk up to
\* the block that fits, or the comparison of heap_brk + total with heap_end
kmalloc_scan(size) ==
    /\ AllocCanCall
    /\ size /= 0
    /\ alloc_calls < MaxAllocCalls
    /\ alloc_calls' = alloc_calls + 1
    /\ LET sz == RoundSize(size)
           total == sz + HEADER_SIZE
           i == page_scan(page_bitmap, PagesFor(total), 0)
           by_pages == IF i = NULL THEN NoCall
                       ELSE [NoCall EXCEPT !.op = "kmalloc_pages", !.size = sz,
                                           !.count = PagesFor(total), !.i = i]
           f == first_fit(hdr, free_list, NULL, sz, Cardinality(DOMAIN hdr))
       IN IF sz > PAGE_SIZE \div 2
          THEN call' = [call EXCEPT ![current_task] = by_pages] /\ UNCHANGED hung
          ELSE IF f.hang
          THEN hung' = TRUE /\ UNCHANGED call
          ELSE IF f.blk /= NULL
          THEN /\ call' = [call EXCEPT ![current_task] =
                              [NoCall EXCEPT !.op = "kmalloc_reuse", !.size = sz,
                                             !.blk = f.blk, !.prev = f.prev]]
               /\ UNCHANGED hung
          ELSE IF heap_brk + total > heap_end
          THEN call' = [call EXCEPT ![current_task] = by_pages] /\ UNCHANGED hung
          ELSE /\ call' = [call EXCEPT ![current_task] =
                              [NoCall EXCEPT !.op = "kmalloc_brk", !.size = sz,
                                             !.blk = heap_brk]]
               /\ UNCHANGED hung
    /\ UNCHANGED <<mem_vars, held_runs, held_blocks, kfree_out>>

\* kmalloc on a page path, from `if (found)` of page_alloc_n to the return
kmalloc_pages ==
    /\ InCall("kmalloc_pages")
    /\ LET c == call[current_task]
           m == page_mark(page_bitmap, used_pages, c.i, c.count)
       IN /\ page_bitmap' = m.bitmap
          /\ used_pages' = m.used
          /\ hdr' = WriteHeader(hdr, PageAddr(c.i), Header(c.size, c.count))
          /\ held_blocks' = [held_blocks EXCEPT ![current_task] =
                                @ \cup {PageAddr(c.i) + HEADER_SIZE}]
    /\ call' = [call EXCEPT ![current_task] = NoCall]
    /\ UNCHANGED <<heap_brk, free_list, alloc_calls, held_runs, kfree_out>>

\* kmalloc with a block of the free list, from the unlinking to the return
kmalloc_reuse ==
    /\ InCall("kmalloc_reuse")
    /\ LET c == call[current_task]
           unlinked == IF c.prev /= NULL
                       THEN [hdr EXCEPT ![c.prev].next = hdr[c.blk].next]
                       ELSE hdr
       IN /\ free_list' = IF c.prev /= NULL THEN free_list ELSE hdr[c.blk].next
          /\ hdr' = [unlinked EXCEPT ![c.blk].next = NULL, ![c.blk].magic = BLOCK_MAGIC]
          /\ held_blocks' = [held_blocks EXCEPT ![current_task] =
                                @ \cup {c.blk + HEADER_SIZE}]
    /\ call' = [call EXCEPT ![current_task] = NoCall]
    /\ UNCHANGED <<page_bitmap, used_pages, heap_brk, alloc_calls, held_runs, kfree_out>>

\* kmalloc at the break, from `heap_brk += total` to the return.  hdr is the
\* break read before the comparison; the sum stored is that value plus total
\* or, where the build reads heap_brk again, the present break plus total
kmalloc_brk ==
    /\ InCall("kmalloc_brk")
    /\ LET c == call[current_task]
           total == c.size + HEADER_SIZE
       IN /\ heap_brk' \in {c.blk + total, heap_brk + total}
          /\ hdr' = WriteHeader(hdr, c.blk, Header(c.size, 0))
          /\ held_blocks' = [held_blocks EXCEPT ![current_task] =
                                @ \cup {c.blk + HEADER_SIZE}]
    /\ call' = [call EXCEPT ![current_task] = NoCall]
    /\ UNCHANGED <<page_bitmap, used_pages, free_list, alloc_calls, held_runs, kfree_out>>

\* kfree(ptr) by a task that was handed ptr
kfree ==
    /\ AllocCanCall
    /\ \E ptr \in held_blocks[current_task] :
          LET h == ptr - HEADER_SIZE
              m == page_free_n(page_bitmap, used_pages, h, hdr[h].is_page_alloc)
          IN /\ held_blocks' = [held_blocks EXCEPT ![current_task] = @ \ {ptr}]
             /\ IF hdr[h].magic /= BLOCK_MAGIC
                THEN kfree_out' = "bad magic" /\ UNCHANGED mem_vars
                ELSE IF hdr[h].is_page_alloc > 0
                THEN /\ hdr' = [hdr EXCEPT ![h].magic = <<0, 0>>]
                     /\ page_bitmap' = m.bitmap
                     /\ used_pages' = m.used
                     /\ UNCHANGED <<heap_brk, free_list>>
                     /\ kfree_out' = "pages"
                ELSE /\ hdr' = [hdr EXCEPT ![h].magic = <<0, 0>>, ![h].next = free_list]
                     /\ free_list' = h
                     /\ UNCHANGED <<page_bitmap, used_pages, heap_brk>>
                     /\ kfree_out' = "list"
    /\ UNCHANGED <<call, alloc_calls, held_runs>>

\* what an allocator step leaves alone
AllocFrame ==
    UNCHANGED <<state, id, name, sleep_until, next, current_task, ready_queue_head,
                next_task_id, tick_count, pc, ret, hist_vars, ps_vars,
                stack_vars, hw_vars>>

\* the shell (alloc, pgalloc, pgfree, memtest) and the tasks it created
\* (task_memtest) call the allocator; the timer IRQ switches between them
NextAlloc ==
    \/ (\E nm \in TaskNames : task_create(nm)) /\ call[current_task].op = "none"
                                               /\ UNCHANGED <<ps_vars, alloc_vars>> /\ CreateFrame
    \/ tick_count < MaxAllocTick /\ TimerIRQ /\ UNCHANGED <<ps_vars, alloc_vars>>
    \/ (\E count \in PageCounts : page_alloc_n_scan(count)) /\ UNCHANGED hung /\ AllocFrame
    \/ page_alloc_n_mark /\ UNCHANGED hung /\ AllocFrame
    \/ page_free_n_call /\ UNCHANGED hung /\ AllocFrame
    \/ (\E size \in MallocSizes : kmalloc_scan(size)) /\ AllocFrame
    \/ kmalloc_pages /\ UNCHANGED hung /\ AllocFrame
    \/ kmalloc_reuse /\ UNCHANGED hung /\ AllocFrame
    \/ kmalloc_brk /\ UNCHANGED hung /\ AllocFrame
    \/ kfree /\ UNCHANGED hung /\ AllocFrame

SpecAlloc == Init /\ [][NextAlloc]_vars

\* ---- memory.c: calls that run from entry to return ----------------------

\* page_alloc_n(count) on bitmap bm and counter used; ret is the address
\* returned, NULL for the null pointer
page_alloc_n(bm, used, count) ==
    LET i == IF count = 0 THEN NULL ELSE page_scan(bm, count, 0)
    IN IF i = NULL
       THEN [bitmap |-> bm, used |-> used, ret |-> NULL]
       ELSE LET m == page_mark(bm, used, i, count)
            IN [bitmap |-> m.bitmap, used |-> m.used, ret |-> PageAddr(i)]

\* the allocator's data as one record
Mem == [bitmap |-> page_bitmap, used |-> used_pages, brk |-> heap_brk,
        fl |-> free_list, hdr |-> hdr]

\* the header read at address a; memory no kmalloc has written holds no magic
HeaderAt(h, a) ==
    IF a \in DOMAIN h THEN h[a]
    ELSE [size |-> 0, magic |-> <<0, 0>>, next |-> NULL, is_page_alloc |-> 0]

\* An unsigned long is held as four 16-bit limbs, the most significant first.
U64Zero == <<0, 0, 0, 0>>
\* the unsigned long of a natural number below 2^31
U64Of(n) == <<0, 0, n \div Limb, n % Limb>>
\* x + c in unsigned long for c < 2^16: the carry out of the top limb is lost
U64AddSmall(x, c) ==
    LET s0 == x[4] + c
        s1 == x[3] + s0 \div Limb
        s2 == x[2] + s1 \div Limb
        s3 == x[1] + s2 \div Limb
    IN <<s3 % Limb, s2 % Limb, s1 % Limb, s0 % Limb>>
\* size = (size + 15) & ~15UL
U64Round(x) ==
    LET y == U64AddSmall(x, 15) IN <<y[1], y[2], y[3], y[4] - (y[4] % 16)>>
\* the value is below 2^30
U64Fits(x) == x[1] = 0 /\ x[2] = 0 /\ x[3] < 16384
\* a size no block of the managed memory has: it stands for every size from 2^30 up
HugeSize == 16384 * Limb
\* the value of x, or HugeSize when it is 2^30 or more
U64Clamp(x) == IF U64Fits(x) THEN x[3] * Limb + x[4] ELSE HugeSize
\* unsigned int pages = (total + PAGE_SIZE - 1) / PAGE_SIZE: the sum wraps
\* in unsigned long, the quotient keeps its low 32 bits.  A count of 2^20
\* pages or more is given as total_pages + 1: page_alloc_n fails for every
\* count above total_pages
Pages32(total) ==
    LET t == U64AddSmall(total, PAGE_SIZE - 1)
    IN IF (t[2] % 4096) /= 0 \/ t[3] * 16 + (t[4] \div 4096) > total_pages
       THEN total_pages + 1
       ELSE t[3] * 16 + (t[4] \div 4096)

\* kmalloc after its first three lines, with the rounded size sz, total = sz +
\* HEADER_SIZE and the page count of the page paths: the memory it leaves, the
\* pointer it returns (NULL for the null pointer), hang when the free-list
\* walk never ends
kmalloc_sized(m, sz, total, pages) ==
    LET p == page_alloc_n(m.bitmap, m.used, pages)
        by_pages ==
            IF p.ret = NULL THEN [mem |-> m, ret |-> NULL, hang |-> FALSE]
            ELSE [mem |-> [m EXCEPT !.bitmap = p.bitmap, !.used = p.used,
                                    !.hdr = WriteHeader(m.hdr, p.ret, Header(sz, pages))],
                  ret |-> p.ret + HEADER_SIZE, hang |-> FALSE]
        f == first_fit(m.hdr, m.fl, NULL, sz, Cardinality(DOMAIN m.hdr))
        unlinked == IF f.prev /= NULL
                    THEN [m.hdr EXCEPT ![f.prev].next = m.hdr[f.blk].next]
                    ELSE m.hdr
    IN IF sz > PAGE_SIZE \div 2 THEN by_pages
       ELSE IF f.hang THEN [mem |-> m, ret |-> NULL, hang |-> TRUE]
       ELSE IF f.blk /= NULL
       THEN [mem |-> [m EXCEPT !.fl = IF f.prev /= NULL THEN m.fl ELSE m.hdr[f.blk].next,
                               !.hdr = [unlinked EXCEPT ![f.blk].next = NULL,
                                                        ![f.blk].magic = BLOCK_MAGIC]],
             ret |-> f.blk + HEADER_SIZE, hang |-> FALSE]
       ELSE IF m.brk + total > heap_end THEN by_pages
       ELSE [mem |-> [m EXCEPT !.brk = m.brk + total,
                               !.hdr = WriteHeader(m.hdr, m.brk, Header(sz, 0))],
             ret |-> m.brk + HEADER_SIZE, hang |-> FALSE]

\* kmalloc(size) on memory m, size an unsigned long in limbs.  A rounded size
\* of 2^30 or more takes the page path whatever it is, and is written to the
\* header as HugeSize
kmalloc(m, size) ==
    LET sz == U64Round(size)
        total == U64AddSmall(sz, HEADER_SIZE)
    IN IF size = U64Zero THEN [mem |-> m, ret |-> NULL, hang |-> FALSE]
       ELSE kmalloc_sized(m, U64Clamp(sz), U64Clamp(total), Pages32(total))

\* kfree(ptr) without the test of hdr->magic
kfree_ptr_no_magic(m, ptr) ==
    LET h == ptr - HEADER_SIZE
        rec == HeaderAt(m.hdr, h)
        f == page_free_n(m.bitmap, m.used, h, rec.is_page_alloc)
    IN IF ptr = NULL THEN m
       ELSE IF rec.is_page_alloc > 0
       THEN [m EXCEPT !.hdr = WriteHeader(m.hdr, h, [rec EXCEPT !.magic = <<0, 0>>]),
                      !.bitmap = f.bitmap, !.used = f.used]
       ELSE [m EXCEPT !.hdr = WriteHeader(m.hdr, h, [rec EXCEPT !.magic = <<0, 0>>,
                                                               !.next = m.fl]),
                      !.fl = h]

\* kfree(ptr) on memory m
kfree_ptr(m, ptr) ==
    LET h == ptr - HEADER_SIZE
        rec == HeaderAt(m.hdr, h)
        f == page_free_n(m.bitmap, m.used, h, rec.is_page_alloc)
    IN IF ptr = NULL THEN m
       ELSE IF rec.magic /= BLOCK_MAGIC THEN m
       ELSE IF rec.is_page_alloc > 0
       THEN [m EXCEPT !.hdr = [m.hdr EXCEPT ![h].magic = <<0, 0>>],
                      !.bitmap = f.bitmap, !.used = f.used]
       ELSE [m EXCEPT !.hdr = [m.hdr EXCEPT ![h].magic = <<0, 0>>, ![h].next = m.fl],
                      !.fl = h]

\* the path kfree(ptr) takes on memory m
kfree_path(m, ptr) ==
    LET rec == HeaderAt(m.hdr, ptr - HEADER_SIZE)
    IN IF ptr = NULL THEN "null"
       ELSE IF rec.magic /= BLOCK_MAGIC THEN "bad magic"
       ELSE IF rec.is_page_alloc > 0 THEN "pages"
       ELSE "list"

\* the variables take the fields of memory m
MemBecomes(m) ==
    /\ page_bitmap' = m.bitmap
    /\ used_pages' = m.used
    /\ heap_brk' = m.brk
    /\ free_list' = m.fl
    /\ hdr' = m.hdr

\* local page number of the page at address addr
LocalPage(addr) == addr \div PAGE_SIZE - first_free_page

\* the shell calls page_alloc_n(count)
page_alloc_n_call(count) ==
    /\ AllocCanCall
    /\ alloc_calls < MaxMemCalls
    /\ alloc_calls' = alloc_calls + 1
    /\ LET r == page_alloc_n(page_bitmap, used_pages, count)
       IN /\ page_bitmap' = r.bitmap
          /\ used_pages' = r.used
          /\ ret' = r.ret
          /\ held_runs' = IF r.ret = NULL THEN held_runs
                          ELSE [held_runs EXCEPT ![current_task] =
                                   @ \cup {<<LocalPage(r.ret), count>>}]
    /\ UNCHANGED <<heap_brk, free_list, hdr, call, held_blocks, hung, kfree_out>>

\* the sizes tried for kmalloc, as unsigned long: 0, two arena sizes, a size
\* of two pages with its header, 2^44 and 2^64 - 1
MemSizes ==
    {U64Of(n) : n \in {0, 64, 2048, 4080}}
        \cup {<<0, 4096, 0, 0>>, <<Limb - 1, Limb - 1, Limb - 1, Limb - 1>>}

\* the shell calls kmalloc(size)
kmalloc_call(size) ==
    /\ AllocCanCall
    /\ alloc_calls < MaxMemCalls
    /\ alloc_calls' = alloc_calls + 1
    /\ LET r == kmalloc(Mem, size)
       IN IF r.hang
          THEN hung' = TRUE /\ UNCHANGED <<mem_vars, ret, held_blocks>>
          ELSE /\ MemBecomes(r.mem)
               /\ ret' = r.ret
               /\ held_blocks' = IF r.ret = NULL THEN held_blocks
                                  ELSE [held_blocks EXCEPT ![current_task] = @ \cup {r.ret}]
               /\ UNCHANGED hung
    /\ UNCHANGED <<call, held_runs, kfree_out>>

\* a pointer into the arena that no kmalloc has returned
WildPtr == heap_end - 16

\* the pointers tried for kfree: every pointer kmalloc has returned, freed
\* since or not, the null pointer and a pointer kmalloc never returned
FreePtrs == {a + HEADER_SIZE : a \in DOMAIN hdr} \cup {NULL, WildPtr}

\* the shell calls kfree(ptr)
kfree_call(ptr) ==
    /\ AllocCanCall
    /\ MemBecomes(kfree_ptr(Mem, ptr))
    /\ kfree_out' = kfree_path(Mem, ptr)
    /\ held_blocks' = [i \in Slots |-> held_blocks[i] \ {ptr}]
    /\ UNCHANGED <<call, alloc_calls, held_runs, hung, ret>>

\* what a call that runs from entry to return leaves alone
MemFrame ==
    UNCHANGED <<state, id, name, sleep_until, next, current_task, ready_queue_head,
                next_task_id, tick_count, pc, hist_vars, ps_vars,
                stack_vars, hw_vars>>

\* the allocator as the shell alone calls it (pgalloc, pgfree, alloc)
NextMem ==
    \/ (\E count \in PageCounts \cup {0} : page_alloc_n_call(count)) /\ MemFrame
    \/ page_free_n_call /\ UNCHANGED <<hung, ret>> /\ MemFrame
    \/ (\E size \in MemSizes : kmalloc_call(size)) /\ MemFrame
    \/ (\E ptr \in FreePtrs : kfree_call(ptr)) /\ MemFrame

SpecMem == Init /\ [][NextMem]_vars

\* ---- memory.c: page_free_n on any address -------------------------------

\* the addresses tried for page_free_n, as the shell command pgfree passes
\* them: two below the managed base, every page of the managed region, the
\* address at its end and the page after it
FreeAddrs ==
    {PAGE_SIZE, heap_start - 1}
        \cup {PageAddr(i) : i \in 0 .. (MANAGED_PAGES + 1)}

\* page_free_n(addr, count) as any caller may call it (pgfree: count = 1).
\* used_pages is an unsigned long: below 0 it wraps, and the value 2^64 - k
\* is written -k
page_free_n_any(addr, count) ==
    /\ AllocCanCall
    /\ alloc_calls < MaxPgCalls
    /\ alloc_calls' = alloc_calls + 1
    /\ LET m == page_free_n(page_bitmap, used_pages, addr, count)
       IN /\ page_bitmap' = m.bitmap
          /\ used_pages' = m.used
    /\ kfree_out' = "page_free_n"
    /\ UNCHANGED <<heap_brk, free_list, hdr, call, held_runs, held_blocks, hung, ret>>

NextPg ==
    \/ (\E count \in PageCounts \cup {0} : page_alloc_n_call(count)) /\ MemFrame
    \/ (\E addr \in FreeAddrs : \E count \in PageCounts : page_free_n_any(addr, count))
           /\ MemFrame
    \/ (\E size \in MemSizes : kmalloc_call(size)) /\ MemFrame
    \/ (\E ptr \in FreePtrs : kfree_call(ptr)) /\ MemFrame

SpecPg == Init /\ [][NextPg]_vars

\* ---- the scheduler of src/src/drivers/task.c --------------------------------
\*
\* Its queue helpers, scheduler_init, task_create and schedule_irq are those
\* of part_000 line for line; task_sleep differs.

\* task_sleep(ms) of task.c: `me` is the caller; the deadline and BLOCKED are
\* written under the IRQ mask, and the caller is not put in the ready queue
task_sleep_me(ms) ==
    /\ CanCall
    /\ sleep_until' = [sleep_until EXCEPT ![current_task] = tick_count + SleepTicks(ms)]
    /\ state' = [state EXCEPT ![current_task] = TASK_BLOCKED]
    /\ pc' = [pc EXCEPT ![current_task] = "sleep"]
    /\ UNCHANGED <<id, name, next, ready_queue_head, hung, current_task,
                   next_task_id, tick_count, ret>>
    /\ CallHistory(current_task, tick_count + SleepCeil(ms))

\* the timer IRQ with the variant's scheduler
TimerIRQV == TimerIRQ /\ UNCHANGED <<ps_vars, alloc_vars>>

\* the timer IRQs after tick MaxTick.  task_sleep is called while its
\* deadline is at most MaxTick, so every test `now >= sleep_until` of
\* dequeue_ready_task gives from tick MaxTick on what it gives at MaxTick:
\* tick_count = MaxTick stands for every later tick as well
TimerIRQLate ==
    /\ ~hung
    /\ ~irq_masked
    /\ cntp_ctl = 1
    /\ scheduler_enabled
    /\ tick_count = MaxTick
    /\ \A i \in Slots : sleep_until[i] <= MaxTick
    /\ cntp_tval' = IF timer_interval = 0
                    THEN (cntfrq \div 1000) * 100
                    ELSE timer_interval
    /\ irq_in' = IrqSp
    /\ schedule_irq_from(tick_count, IrqSp)
    /\ idle' = NoIdle
    /\ UNCHANGED <<tick_count, id, name, sleep_until, next_task_id, pc, ret, tf,
                   sleep_dl, woke, no_slot, boot, scheduler_enabled, irq_masked,
                   cntfrq, timer_interval, cntp_ctl, mmu_vars, ext_vars, ps_vars,
                   alloc_vars>>

NextV ==
    \/ (\E nm \in TaskNames : task_create_upto(nm, MaxVId))
           /\ UNCHANGED <<ps_vars, alloc_vars>> /\ CreateFrame
    \/ (\E ms \in SleepMs : tick_count + SleepCeil(ms) <= MaxTick /\ task_sleep_me(ms))
           /\ UNCHANGED <<ps_vars, alloc_vars>> /\ CallFrame
    \/ task_sleep_return /\ UNCHANGED <<ps_vars, alloc_vars>> /\ CallFrame
    \/ TimerIRQV
    \/ TimerIRQLate

SpecV == Init /\ [][NextV]_vars
\* the timer keeps expiring: its IRQ is taken whenever the core can take it
SpecVFair == SpecV /\ WF_vars(TimerIRQV \/ TimerIRQLate)

\* ---- task_sleep over the range of unsigned int ----------------------------

\* values of ms as limbs <<hi, lo>>: 0, 1, 100, 101, 65535, 65536,
\* 2^32 - 100, 2^32 - 99 and 2^32 - 1
WideMs == {<<0, 0>>, <<0, 1>>, <<0, 100>>, <<0, 101>>, <<0, Limb - 1>>, <<1, 0>>,
           <<Limb - 1, Limb - 100>>, <<Limb - 1, Limb - 99>>, <<Limb - 1, Limb - 1>>}

\* ceil(ms / 100) for ms = hi * Limb + lo
CeilU(hi, lo) ==
    UDiv100(hi, lo) + (IF ((hi % 100) * Limb + lo) % 100 = 0 THEN 0 ELSE 1)

\* task_sleep(ms) with ms = hi * Limb + lo
task_sleep_u(hi, lo) ==
    /\ CanCall
    /\ LET e == enqueue_task(next, ready_queue_head, current_task) IN
       /\ sleep_until' = [sleep_until EXCEPT ![current_task] = tick_count + SleepTicksU(hi, lo)]
       /\ state' = [state EXCEPT ![current_task] = TASK_BLOCKED]
       /\ next' = e.next
       /\ ready_queue_head' = e.head
       /\ hung' = e.hang
       /\ pc' = [pc EXCEPT ![current_task] = "sleep"]
       /\ UNCHANGED <<id, name, current_task, next_task_id, tick_count, ret>>
       /\ CallHistory(current_task, tick_count + CeilU(hi, lo))

TimerIRQSleep ==
    tick_count < MaxSleepTick /\ TimerIRQ /\ UNCHANGED <<ps_vars, alloc_vars>>

NextSleep ==
    \/ (\E nm \in TaskNames : task_create_upto(nm, MaxSleepId))
           /\ UNCHANGED <<ps_vars, alloc_vars>> /\ CreateFrame
    \/ (\E ms \in WideMs : task_sleep_u(ms[1], ms[2]))
           /\ UNCHANGED <<ps_vars, alloc_vars>> /\ CallFrame
    \/ task_sleep_return /\ UNCHANGED <<ps_vars, alloc_vars>> /\ CallFrame
    \/ TimerIRQSleep

SpecSleep == Init /\ [][NextSleep]_vars

\* ---- scheduler calls, statement by statement ------------------------------
\*
\* pc[current_task] names the statement the running task executes next;
\* call[current_task].i holds the local `task` / the index i of the call.

\* asm volatile("msr daifset, #2") left out
daifset_none == UNCHANGED irq_masked

\* asm volatile("msr daifset, #2"): PSTATE.I is set
daifset == irq_masked' = TRUE

\* asm volatile("msr daifclr, #2") left out
daifclr_none == UNCHANGED irq_masked

\* asm volatile("msr daifclr, #2"): PSTATE.I is cleared
daifclr == irq_masked' = FALSE

At(l) == ~hung /\ pc[current_task] = l
Goto(l) == pc' = [pc EXCEPT ![current_task] = l]
Local(i) == call' = [call EXCEPT ![current_task] = [NoCall EXCEPT !.op = "sched", !.i = i]]
StepKeeps ==
    /\ UNCHANGED <<current_task, tick_count, ps_vars, mem_vars, alloc_calls,
                   held_runs, held_blocks, kfree_out, irq_in, irq_out, boot,
                   scheduler_enabled, cntfrq, timer_interval, cntp_tval,
                   cntp_ctl, mmu_vars, ext_vars>>
    /\ CallHistory(NULL, NULL)

\* task_sleep, line 243
ts_mask ==
    /\ At("run") /\ daifset /\ Goto("ts_deadline") /\ StepKeeps
    /\ UNCHANGED <<state, id, name, sleep_until, next, ready_queue_head,
                   next_task_id, hung, ret, sp, tf, call>>
\* lines 244-245
ts_deadline(ms) ==
    /\ At("ts_deadline") /\ Goto("ts_state") /\ StepKeeps
    /\ sleep_until' = [sleep_until EXCEPT ![current_task] = tick_count + SleepTicks(ms)]
    /\ UNCHANGED <<state, id, name, next, ready_queue_head,
                   next_task_id, hung, ret, sp, tf, call, irq_masked>>
\* line 246
ts_state ==
    /\ At("ts_state") /\ Goto("ts_enqueue") /\ StepKeeps
    /\ state' = [state EXCEPT ![current_task] = TASK_BLOCKED]
    /\ UNCHANGED <<id, name, sleep_until, next, ready_queue_head,
                   next_task_id, hung, ret, sp, tf, call, irq_masked>>
\* line 248
ts_enqueue ==
    /\ At("ts_enqueue") /\ Goto("ts_unmask") /\ StepKeeps
    /\ LET e == enqueue_task(next, ready_queue_head, current_task) IN
       next' = e.next /\ ready_queue_head' = e.head /\ hung' = e.hang
    /\ UNCHANGED <<state, id, name, sleep_until,
                   next_task_id, ret, sp, tf, call, irq_masked>>
\* line 249; the wfi loop of lines 252-253 follows
ts_unmask ==
    /\ At("ts_unmask") /\ daifclr /\ Goto("sleep") /\ StepKeeps
    /\ UNCHANGED <<state, id, name, sleep_until, next, ready_queue_head,
                   next_task_id, hung, ret, sp, tf, call>>
\* the loop of lines 252-253 is left
ts_return ==
    /\ At("sleep") /\ state[current_task] /= TASK_BLOCKED
    /\ Goto("run") /\ StepKeeps
    /\ UNCHANGED <<state, id, name, sleep_until, next, ready_queue_head,
                   next_task_id, hung, ret, sp, tf, call, irq_masked>>

\* task_exit, line 259
te_mask ==
    /\ At("run") /\ current_task /= 0 /\ daifset /\ Goto("te_state") /\ StepKeeps
    /\ UNCHANGED <<state, id, name, sleep_until, next, ready_queue_head,
                   next_task_id, hung, ret, sp, tf, call>>
\* line 260
te_state ==
    /\ At("te_state") /\ Goto("te_unmask") /\ StepKeeps
    /\ state' = [state EXCEPT ![current_task] = TASK_DEAD]
    /\ UNCHANGED <<id, name, sleep_until, next, ready_queue_head,
                   next_task_id, hung, ret, sp, tf, call, irq_masked>>
\* line 261; the wfi loop of lines 263-264 follows
te_unmask ==
    /\ At("te_unmask") /\ daifclr /\ Goto("exit") /\ StepKeeps
    /\ UNCHANGED <<state, id, name, sleep_until, next, ready_queue_head,
                   next_task_id, hung, ret, sp, tf, call>>

\* task_exit_trampoline, lines 86-90: the entry function returned to x30
tramp ==
    /\ At("run") /\ current_task /= 0 /\ Goto("exit") /\ StepKeeps
    /\ state' = [state EXCEPT ![current_task] = TASK_DEAD]
    /\ UNCHANGED <<id, name, sleep_until, next, ready_queue_head,
                   next_task_id, hung, ret, sp, tf, call, irq_masked>>

\* task_create, line 150
tc_mask ==
    /\ At("run") /\ next_task_id <= MaxStepId
    /\ daifset /\ Goto("tc_find") /\ StepKeeps
    /\ UNCHANGED <<state, id, name, sleep_until, next, ready_queue_head,
                   next_task_id, hung, ret, sp, tf, call>>
\* lines 152-162: the first DEAD slot, or the error return
tc_find ==
    /\ At("tc_find") /\ StepKeeps
    /\ IF FreeSlots = {}
       THEN daifclr /\ Goto("run") /\ UNCHANGED call
       ELSE Local(MinOf(FreeSlots)) /\ Goto("tc_fields") /\ UNCHANGED irq_masked
    /\ UNCHANGED <<state, id, name, sleep_until, next, ready_queue_head,
                   next_task_id, hung, ret, sp, tf>>
\* lines 164-168
tc_fields(nm) ==
    /\ At("tc_fields") /\ StepKeeps
    /\ LET task == call[current_task].i IN
       /\ id' = [id EXCEPT ![task] = next_task_id]
       /\ next_task_id' = next_task_id + 1
       /\ state' = [state EXCEPT ![task] = TASK_READY]
       /\ sleep_until' = [sleep_until EXCEPT ![task] = 0]
       /\ next' = [next EXCEPT ![task] = NULL]
       /\ name' = [name EXCEPT ![task] = nm]
       /\ pc' = [pc EXCEPT ![task] = "run", ![current_task] = "tc_frame"]
    /\ UNCHANGED <<ready_queue_head, hung, ret, sp, tf, call, irq_masked>>
\* line 170
tc_frame ==
    /\ At("tc_frame") /\ Goto("tc_enqueue") /\ StepKeeps
    /\ LET task == call[current_task].i IN
       /\ sp' = [sp EXCEPT ![task] = init_task_trapframe(task)]
       /\ tf' = [tf EXCEPT ![task] = trapframe(task, EntryOf(name[task]))]
    /\ UNCHANGED <<state, id, name, sleep_until, next, ready_queue_head,
                   next_task_id, hung, ret, call, irq_masked>>
\* line 171
tc_enqueue ==
    /\ At("tc_enqueue") /\ Goto("tc_unmask") /\ StepKeeps
    /\ LET e == enqueue_task(next, ready_queue_head, call[current_task].i) IN
       next' = e.next /\ ready_queue_head' = e.head /\ hung' = e.hang
    /\ UNCHANGED <<state, id, name, sleep_until,
                   next_task_id, ret, sp, tf, call, irq_masked>>
\* line 173
tc_unmask ==
    /\ At("tc_unmask") /\ daifclr /\ Goto("run") /\ StepKeeps
    /\ call' = [call EXCEPT ![current_task] = NoCall]
    /\ UNCHANGED <<state, id, name, sleep_until, next, ready_queue_head,
                   next_task_id, hung, ret, sp, tf>>

\* task_kill, line 180
tk_mask ==
    /\ At("run") /\ daifset /\ Goto("tk_find") /\ StepKeeps
    /\ UNCHANGED <<state, id, name, sleep_until, next, ready_queue_head,
                   next_task_id, hung, ret, sp, tf, call>>
\* lines 182-193 and 206-207: the loop, and the three returns of -1
tk_find(task_id) ==
    /\ At("tk_find") /\ StepKeeps
    /\ LET m == KillMatches(task_id)
           refuse == m = {} \/ MinOf(m) = 0 \/ MinOf(m) = current_task
       IN IF refuse
          THEN daifclr /\ ret' = -1 /\ Goto("run") /\ UNCHANGED call
          ELSE Local(MinOf(m)) /\ Goto("tk_remove") /\ UNCHANGED <<irq_masked, ret>>
    /\ UNCHANGED <<state, id, name, sleep_until, next, ready_queue_head,
                   next_task_id, hung, sp, tf>>
\* line 196
tk_remove ==
    /\ At("tk_remove") /\ Goto("tk_dead") /\ StepKeeps
    /\ LET r == remove_from_queue(next, ready_queue_head, call[current_task].i) IN
       IF r.hang
       THEN hung' = TRUE /\ UNCHANGED <<next, ready_queue_head>>
       ELSE next' = r.next /\ ready_queue_head' = r.head /\ UNCHANGED hung
    /\ UNCHANGED <<state, id, name, sleep_until,
                   next_task_id, ret, sp, tf, call, irq_masked>>
\* lines 199-200
tk_dead ==
    /\ At("tk_dead") /\ Goto("tk_unmask") /\ StepKeeps
    /\ LET i == call[current_task].i IN
       /\ state' = [state EXCEPT ![i] = TASK_DEAD]
       /\ next' = [next EXCEPT ![i] = NULL]
    /\ UNCHANGED <<id, name, sleep_until, ready_queue_head,
                   next_task_id, hung, ret, sp, tf, call, irq_masked>>
\* lines 202-203
tk_unmask ==
    /\ At("tk_unmask") /\ daifclr /\ ret' = 0 /\ Goto("run") /\ StepKeeps
    /\ call' = [call EXCEPT ![current_task] = NoCall]
    /\ UNCHANGED <<state, id, name, sleep_until, next, ready_queue_head,
                   next_task_id, hung, sp, tf>>

\* the timer IRQ between two statements of the running task
TimerIRQStep ==
    tick_count < MaxStepTick /\ TimerIRQ /\ UNCHANGED <<ps_vars, alloc_vars>>

NextStep ==
    \/ ts_mask \/ (\E ms \in SleepMs : ts_deadline(ms)) \/ ts_state
    \/ ts_enqueue \/ ts_unmask \/ ts_return
    \/ te_mask \/ te_state \/ te_unmask \/ tramp
    \/ tc_mask \/ tc_find \/ (\E nm \in TaskNames : tc_fields(nm))
    \/ tc_frame \/ tc_enqueue \/ tc_unmask
    \/ tk_mask \/ (\E task_id \in KillIds : tk_find(task_id))
    \/ tk_remove \/ tk_dead \/ tk_unmask
    \/ TimerIRQStep

SpecStep == Init /\ [][NextStep]_vars

\* ---- kernel_main from its entry -------------------------------------------

\* counter frequencies: the Raspberry Pi 4, QEMU, and one below 1 kHz, for
\* which timer_init stores interval 0
TimerFreqs == {PiFreq, 62500000, 999}

\* .bss is zero and IRQs are masked when kernel_main is entered: no task is
\* current, every state field holds 0 = TASK_READY, the timer is off.  The
\* bitmap lies outside .bss; nothing reads it before memory_init writes it.
InitBoot ==
    /\ boot = "memory_init"
    /\ scheduler_enabled = FALSE
    /\ irq_masked = TRUE
    /\ cntfrq \in TimerFreqs
    /\ timer_interval = 0
    /\ cntp_tval = 0
    /\ cntp_ctl = 0
    /\ state = [i \in Slots |-> TASK_READY]
    /\ id = [i \in Slots |-> 0]
    /\ name = [i \in Slots |-> ""]
    /\ sleep_until = [i \in Slots |-> 0]
    /\ next = [i \in Slots |-> NULL]
    /\ sp = [i \in Slots |-> 0]
    /\ tf = NoFrames
    /\ ready_queue_head = NULL
    /\ next_task_id = 0
    /\ current_task = NULL
    /\ tick_count = 0
    /\ page_bitmap = {}
    /\ used_pages = 0
    /\ heap_brk = 0
    /\ free_list = NULL
    /\ hdr = [a \in {} |-> 0]
    /\ call = [i \in Slots |-> NoCall]
    /\ alloc_calls = 0
    /\ held_runs = [i \in Slots |-> {}]
    /\ held_blocks = [i \in Slots |-> {}]
    /\ kfree_out = "none"
    /\ pc = [i \in Slots |-> "run"]
    /\ hung = FALSE
    /\ ret = 0
    /\ idle = NoIdle
    /\ sleep_dl = [i \in Slots |-> NULL]
    /\ woke = [i \in Slots |-> NULL]
    /\ no_slot = FALSE
    /\ ps_i = 0
    /\ ps_out = <<>>
    /\ ps_runs = 0
    /\ ps_dead = {}
    /\ irq_in = 0
    /\ irq_out = 0
    /\ pt = NoTables
    /\ va = NoVa
    /\ walk = NoWalk
    /\ ExtInit

\* kernel_main with `msr daifclr, #2` moved before scheduler_init
kernel_main_unmask_first ==
    <<"memory_init", "timer_init", "unmask", "scheduler_init", "enable", "shell">>

\* the statements of kernel_main that write modelled state, in program order,
\* and its command loop
kernel_main_order ==
    <<"memory_init", "timer_init", "scheduler_init", "enable", "unmask", "shell">>

\* the statement after stmt
BootAfter(stmt) ==
    kernel_main_order[1 + CHOOSE k \in 1 .. Len(kernel_main_order) - 1 :
                             kernel_main_order[k] = stmt]

\* what a statement of kernel_main leaves alone besides what it writes
BootFrame == UNCHANGED <<pc, hung, ret, hist_vars, ps_vars, call, alloc_calls,
                         held_runs, held_blocks, kfree_out, irq_in, irq_out,
                         mmu_vars, ext_vars, cntfrq>>

\* memory_init(), then mmu_init, fs_init and gic_init, which write none of
\* the state followed here
km_memory_init ==
    /\ boot = "memory_init"
    /\ boot' = BootAfter("memory_init")
    /\ page_bitmap' = 0 .. (HEAP_PAGES - 1)
    /\ used_pages' = HEAP_PAGES
    /\ heap_brk' = heap_start
    /\ free_list' = NULL
    /\ hdr' = [a \in {} |-> 0]
    /\ UNCHANGED <<state, id, name, sleep_until, next, sp, tf, current_task,
                   ready_queue_head, next_task_id, tick_count>>
    /\ UNCHANGED <<scheduler_enabled, irq_masked, timer_interval, cntp_tval, cntp_ctl>>
    /\ BootFrame

\* timer_init(interval_ms), then the two gic calls
timer_init(interval_ms) ==
    /\ boot = "timer_init"
    /\ boot' = BootAfter("timer_init")
    /\ timer_interval' = TimerInterval(cntfrq, interval_ms)
    /\ cntp_tval' = TimerInterval(cntfrq, interval_ms)
    /\ cntp_ctl' = 1
    /\ UNCHANGED <<state, id, name, sleep_until, next, sp, tf, current_task,
                   ready_queue_head, next_task_id, tick_count, mem_vars>>
    /\ UNCHANGED <<scheduler_enabled, irq_masked>>
    /\ BootFrame

\* scheduler_init() called by kernel_main
km_scheduler_init ==
    /\ boot = "scheduler_init"
    /\ boot' = BootAfter("scheduler_init")
    /\ state' = [i \in Slots |-> IF i = 0 THEN TASK_RUNNING ELSE TASK_DEAD]
    /\ id' = [i \in Slots |-> 0]
    /\ name' = [i \in Slots |-> IF i = 0 THEN "shell" ELSE ""]
    /\ sleep_until' = [sleep_until EXCEPT ![0] = 0]
    /\ next' = [i \in Slots |-> NULL]
    /\ sp' = [sp EXCEPT ![0] = 0]
    /\ UNCHANGED tf
    /\ ready_queue_head' = NULL
    /\ next_task_id' = 1
    /\ current_task' = 0
    /\ UNCHANGED <<tick_count, mem_vars>>
    /\ UNCHANGED <<scheduler_enabled, irq_masked, timer_interval, cntp_tval, cntp_ctl>>
    /\ BootFrame

\* scheduler_enabled = 1
km_enable ==
    /\ boot = "enable"
    /\ boot' = BootAfter("enable")
    /\ scheduler_enabled' = TRUE
    /\ UNCHANGED <<state, id, name, sleep_until, next, sp, tf, current_task,
                   ready_queue_head, next_task_id, tick_count, mem_vars>>
    /\ UNCHANGED <<irq_masked, timer_interval, cntp_tval, cntp_ctl>>
    /\ BootFrame

\* msr daifclr, #2
km_unmask ==
    /\ boot = "unmask"
    /\ boot' = BootAfter("unmask")
    /\ irq_masked' = FALSE
    /\ UNCHANGED <<state, id, name, sleep_until, next, sp, tf, current_task,
                   ready_queue_head, next_task_id, tick_count, mem_vars>>
    /\ UNCHANGED <<scheduler_enabled, timer_interval, cntp_tval, cntp_ctl>>
    /\ BootFrame

\* once kernel_main is in its command loop the shell and the tasks it spawns
\* call the scheduler; the timer IRQ comes whenever the core takes it
NextBoot ==
    \/ km_memory_init
    \/ timer_init(100)
    \/ km_scheduler_init
    \/ km_enable
    \/ km_unmask
    \/ tick_count < MaxBootTick /\ TimerIRQ /\ UNCHANGED <<ps_vars, alloc_vars>>
    \/ boot = "shell" /\ (\E nm \in TaskNames : task_create_upto(nm, MaxBootId))
                      /\ UNCHANGED <<ps_vars, alloc_vars>> /\ CreateFrame
    \/ boot = "shell" /\ (\E ms \in SleepMs : task_sleep(ms))
                      /\ UNCHANGED <<ps_vars, alloc_vars>> /\ CallFrame
    \/ boot = "shell" /\ task_sleep_return /\ UNCHANGED <<ps_vars, alloc_vars>> /\ CallFrame
    \/ boot = "shell" /\ task_exit /\ UNCHANGED <<ps_vars, alloc_vars>> /\ CallFrame

SpecBoot == InitBoot /\ [][NextBoot]_vars

\* ---- mmu.c: the translation tables ----------------------------------------

PT_VALID == 1
PT_TABLE == 2
PT_BLOCK == 0
PT_AF == 1024
PT_ISH == 768
PT_OSH == 512
PT_AP_RW_EL1 == 0
PT_ATTR(idx) == idx * 4
MT_DEVICE == 0
MT_NORMAL == 1

\* a | b on values of n bits
RECURSIVE BitOr(_, _, _)
BitOr(a, b, n) ==
    IF n = 0 THEN 0
    ELSE (IF a % 2 = 1 \/ b % 2 = 1 THEN 1 ELSE 0) + 2 * BitOr(a \div 2, b \div 2, n - 1)
Or16(a, b) == BitOr(a, b, 16)
\* x | y and x + y on unsigned long, in limbs
U64Or(x, y) == <<Or16(x[1], y[1]), Or16(x[2], y[2]), Or16(x[3], y[3]), Or16(x[4], y[4])>>
U64Add(x, y) ==
    LET s4 == x[4] + y[4]
        s3 == x[3] + y[3] + (s4 \div Limb)
        s2 == x[2] + y[2] + (s3 \div Limb)
        s1 == x[1] + y[1] + (s2 \div Limb)
    IN <<s1 % Limb, s2 % Limb, s3 % Limb, s4 % Limb>>

BLOCK_DEVICE ==
    Or16(Or16(Or16(Or16(Or16(PT_VALID, PT_BLOCK), PT_AF), PT_ATTR(MT_DEVICE)), PT_OSH),
         PT_AP_RW_EL1)
BLOCK_NORMAL ==
    Or16(Or16(Or16(Or16(Or16(PT_VALID, PT_BLOCK), PT_AF), PT_ATTR(MT_NORMAL)), PT_ISH),
         PT_AP_RW_EL1)
TABLE_ENTRY == Or16(PT_VALID, PT_TABLE)

\* the addresses of the four tables, 4096-aligned in .bss
l0_table == 589824
l1_table == 593920
l2_ram_table == 598016
l2_dev_table == 602112
PtIndex == 0 .. 511
TwoMB == 2 * 1024 * 1024
\* 0xC0000000UL
DevBase == <<0, 0, 49152, 0>>

\* the tables in .bss before mmu_init, and the MMU off
ZeroTables ==
    [on |-> FALSE, ttbr0 |-> NULL, mair |-> 0,
     tables |-> [a \in {l0_table, l1_table, l2_ram_table, l2_dev_table} |->
                   [i \in PtIndex |-> U64Zero]]]

\* mmu_init with l1_table[3] pointing to l2_ram_table
mmu_init_one_l2 ==
    LET zero == [i \in PtIndex |-> U64Zero]
        ram == [i \in PtIndex |-> U64Or(U64Of(i * TwoMB), U64Of(BLOCK_NORMAL))]
        dev == [i \in PtIndex |->
                  U64Or(U64Add(DevBase, U64Of(i * TwoMB)), U64Of(BLOCK_DEVICE))]
        l1 == [zero EXCEPT ![0] = U64Or(U64Of(l2_ram_table), U64Of(TABLE_ENTRY)),
                           ![3] = U64Or(U64Of(l2_ram_table), U64Of(TABLE_ENTRY))]
        l0 == [zero EXCEPT ![0] = U64Or(U64Of(l1_table), U64Of(TABLE_ENTRY))]
    IN [on |-> TRUE, ttbr0 |-> l0_table,
        mair |-> 0 * (256 ^ MT_DEVICE) + 255 * (256 ^ MT_NORMAL),
        tables |-> [a \in {l0_table, l1_table, l2_ram_table, l2_dev_table} |->
                      IF a = l0_table THEN l0
                      ELSE IF a = l1_table THEN l1
                      ELSE IF a = l2_ram_table THEN ram ELSE dev]]

\* mmu_init: the tables it writes, mair_el1, ttbr0_el1 and the MMU enabled
mmu_init ==
    LET zero == [i \in PtIndex |-> U64Zero]
        ram == [i \in PtIndex |-> U64Or(U64Of(i * TwoMB), U64Of(BLOCK_NORMAL))]
        dev == [i \in PtIndex |->
                  U64Or(U64Add(DevBase, U64Of(i * TwoMB)), U64Of(BLOCK_DEVICE))]
        l1 == [zero EXCEPT ![0] = U64Or(U64Of(l2_ram_table), U64Of(TABLE_ENTRY)),
                           ![3] = U64Or(U64Of(l2_dev_table), U64Of(TABLE_ENTRY))]
        l0 == [zero EXCEPT ![0] = U64Or(U64Of(l1_table), U64Of(TABLE_ENTRY))]
    IN [on |-> TRUE, ttbr0 |-> l0_table,
        mair |-> 0 * (256 ^ MT_DEVICE) + 255 * (256 ^ MT_NORMAL),
        tables |-> [a \in {l0_table, l1_table, l2_ram_table, l2_dev_table} |->
                      IF a = l0_table THEN l0
                      ELSE IF a = l1_table THEN l1
                      ELSE IF a = l2_ram_table THEN ram ELSE dev]]

\* the fields of a descriptor d as the table walk of the core reads them
DescValid(d) == d[4] % 2 = 1
DescIsTable(d) == (d[4] \div 2) % 2 = 1
DescAttrIndx(d) == (d[4] \div 4) % 8
DescSH(d) == (d[4] \div 256) % 4
DescAF(d) == (d[4] \div 1024) % 2
\* bits 47:12 of a table descriptor: the address of the next table, NULL if
\* it lies above the memory the tables are in
DescTable(d) ==
    IF d[1] = 0 /\ d[2] = 0 /\ d[3] < 16384
    THEN d[3] * Limb + (d[4] - (d[4] % 4096))
    ELSE NULL
\* bits 47:21 of a level 2 block descriptor: the number of the 2 MB block
DescBlock(d) == d[2] * 2048 + (d[3] \div 32)

Fault == [done |-> TRUE, fault |-> TRUE, block |-> NULL, off |-> NULL,
          attr |-> NULL, type |-> NULL, sh |-> NULL]

\* the walk from ttbr0_el1 for the address with table indices v.l0, v.l1,
\* v.l2 and offset v.off in its 2 MB block (4 KB granule, 48-bit addresses)
Walk(p, v) ==
    LET e0 == p.tables[p.ttbr0][v.l0] IN
    IF ~DescValid(e0) \/ ~DescIsTable(e0) \/ DescTable(e0) \notin DOMAIN p.tables
    THEN Fault
    ELSE LET e1 == p.tables[DescTable(e0)][v.l1] IN
    IF ~DescValid(e1) \/ ~DescIsTable(e1) \/ DescTable(e1) \notin DOMAIN p.tables
    THEN Fault
    ELSE LET e2 == p.tables[DescTable(e1)][v.l2] IN
    IF ~DescValid(e2) \/ DescIsTable(e2) \/ DescAF(e2) = 0
    THEN Fault
    ELSE [done |-> TRUE, fault |-> FALSE, block |-> DescBlock(e2), off |-> v.off,
          attr |-> DescAttrIndx(e2),
          type |-> (p.mair \div (256 ^ DescAttrIndx(e2))) % 256,
          sh |-> DescSH(e2)]

\* the addresses translated: table indices at and around the mapped entries,
\* offsets at both ends of a block
VaSet ==
    [l0 : {0, 1, 511}, l1 : {0, 1, 2, 3, 4, 511}, l2 : {0, 1, 255, 256, 510, 511},
     off : {0, 1, 4096, TwoMB - 1}]

InitMmu ==
    /\ memory_init
    /\ call = [i \in Slots |-> NoCall]
    /\ alloc_calls = 0
    /\ held_runs = [i \in Slots |-> {}]
    /\ held_blocks = [i \in Slots |-> {}]
    /\ kfree_out = "none"
    /\ scheduler_init
    /\ tick_count = 0
    /\ pc = [i \in Slots |-> "run"]
    /\ hung = FALSE
    /\ ret = 0
    /\ idle = NoIdle
    /\ sleep_dl = [i \in Slots |-> NULL]
    /\ woke = [i \in Slots |-> NULL]
    /\ no_slot = FALSE
    /\ ps_i = 0
    /\ ps_out = <<>>
    /\ ps_runs = 0
    /\ ps_dead = {}
    /\ irq_in = 0
    /\ irq_out = 0
    /\ kernel_booted
    /\ pt = ZeroTables
    /\ va = NoVa
    /\ walk = NoWalk
    /\ ExtInit

\* what the MMU steps leave alone
MmuFrame ==
    UNCHANGED <<sched_vars, hist_vars, ps_vars, alloc_vars, stack_vars, boot_vars, ext_vars>>

\* kernel_main calls mmu_init()
mmu_init_call ==
    /\ ~pt.on
    /\ pt' = mmu_init
    /\ UNCHANGED <<va, walk>>
    /\ MmuFrame

\* the core translates address v with the MMU on
translate(v) ==
    /\ pt.on
    /\ va' = v
    /\ walk' = Walk(pt, v)
    /\ UNCHANGED pt
    /\ MmuFrame

NextMmu ==
    \/ mmu_init_call
    \/ \E v \in VaSet : translate(v)

SpecMmu == InitMmu /\ [][NextMmu]_vars

\* ---- the ready queue as seen from its head -----------------------------

\* the TCBs met by following next from node t, for at most fuel links
RECURSIVE Linked(_, _, _)
Linked(nx, t, fuel) ==
    IF t = NULL \/ fuel = 0 THEN {} ELSE {t} \cup Linked(nx, nx[t], fuel - 1)

\* the TCBs linked in the ready queue
Queued == Linked(next, ready_queue_head, MAX_TASKS)

\* the chain from t ends in a null link and meets no TCB twice
RECURSIVE EndsInNull(_, _, _)
EndsInNull(nx, t, fuel) ==
    IF t = NULL THEN TRUE
    ELSE IF fuel = 0 THEN FALSE
    ELSE EndsInNull(nx, nx[t], fuel - 1)

Alive == {i \in Slots : state[i] /= TASK_DEAD}

\* ---- C1 ----------------------------------------------------------------
\* C1: round-robin fairness.  With k tasks that are all READY or RUNNING and
\* no task_sleep, task_exit, task_kill or task_create in between, no task
\* stays READY over 2k timer IRQs in a row: each of the k tasks is RUNNING
\* after at least one of any 2k consecutive IRQs.
C1_RoundRobinFair ==
    \A i \in Slots : state[i] = TASK_READY => idle[i] < 2 * Cardinality(Alive)

\* ---- C2 ----------------------------------------------------------------
\* C2: sleep lower bound.  A task that called task_sleep(m) at tick t is not
\* made RUNNING again before the tick counter has reached t + ceil(m/100),
\* whatever the other tasks do.
C2_SleepLowerBound ==
    \A i \in Slots : woke[i] /= NULL => woke[i] >= sleep_dl[i]

\* ---- C3 ----------------------------------------------------------------
\* C3: sleep upper bound.  A task that called task_sleep(m) at tick t is
\* RUNNING again no later than tick t + ceil(m/100) + 1, for any number of
\* other READY tasks in the ready queue.
C3_SleepUpperBound ==
    \A i \in Slots :
        sleep_dl[i] /= NULL =>
            IF woke[i] = NULL
            THEN tick_count <= sleep_dl[i]
            ELSE woke[i] <= sleep_dl[i] + 1

\* ---- C4 ----------------------------------------------------------------
\* the calls task_kill must refuse: the shell, the caller, an id no live task has
KillRefused(task_id) ==
    \/ task_id = 0
    \/ task_id = id[current_task]
    \/ KillMatches(task_id) = {}

\* C4: kill refusal.  task_kill(0), task_kill(id of the current task) and
\* task_kill(id of no non-DEAD task) return -1 and leave every TCB's state,
\* the ready queue (contents and order) and the current task unchanged.
C4_KillRefusal ==
    [][\A task_id \in KillIds :
          (task_kill(task_id) /\ KillRefused(task_id)) =>
              /\ ret' = -1
              /\ UNCHANGED <<state, next, ready_queue_head, current_task>>]_vars

\* a refused task_kill has returned while another task sits in the ready queue
C4_Witness ==
    /\ ret = -1
    /\ ready_queue_head /= NULL
    /\ \E i \in Slots : i /= 0 /\ state[i] /= TASK_DEAD

\* ---- C5 ----------------------------------------------------------------
\* the ready queue from its head, as the sequence of the TCBs linked in it
RECURSIVE QueueSeq(_, _, _)
QueueSeq(nx, t, fuel) ==
    IF t = NULL \/ fuel = 0 THEN <<>> ELSE <<t>> \o QueueSeq(nx, nx[t], fuel - 1)

RECURSIVE Without(_, _)
Without(q, x) ==
    IF q = <<>> THEN <<>>
    ELSE IF Head(q) = x THEN Without(Tail(q), x)
    ELSE <<Head(q)>> \o Without(Tail(q), x)

\* C5: kill success.  task_kill(id) for the id of a non-DEAD task other than
\* task 0 and the caller returns 0; afterwards the target is DEAD and not in
\* the ready queue, the other queued tasks keep their relative order, and a
\* DEAD TCB that is not the current task is never made RUNNING again (it can
\* only be re-initialised as a READY task with a new id).
C5_KillSuccess ==
    /\ [][\A task_id \in KillIds :
            (task_kill(task_id) /\ ~KillRefused(task_id)) =>
                LET i == MinOf(KillMatches(task_id)) IN
                /\ ~hung'
                /\ ret' = 0
                /\ state'[i] = TASK_DEAD
                /\ i \notin Linked(next', ready_queue_head', MAX_TASKS)
                /\ QueueSeq(next', ready_queue_head', MAX_TASKS)
                     = Without(QueueSeq(next, ready_queue_head, MAX_TASKS), i)]_vars
    /\ [][\A i \in Slots :
            (state[i] = TASK_DEAD /\ i /= current_task) =>
                \/ state'[i] = TASK_DEAD
                \/ state'[i] = TASK_READY /\ id'[i] /= id[i]]_vars

\* ---- C7 ----------------------------------------------------------------
\* C7: ready-queue well-formedness.  After any sequence of task_create,
\* task_kill, task_sleep (by any current task, task 0 included), task_exit and
\* timer IRQs, the RUNNING task is not linked in the ready queue, no DEAD task
\* is linked in it, and the queue is a finite acyclic list (the chain from the
\* head ends in a null link, so no TCB is met twice).
C7_QueueWellFormed ==
    /\ \A i \in Queued : state[i] /= TASK_RUNNING /\ state[i] /= TASK_DEAD
    /\ EndsInNull(next, ready_queue_head, MAX_TASKS)

\* ---- C8 ----------------------------------------------------------------
\* C8: at most one TCB of the pool is RUNNING, and if one is, it is the TCB
\* current_task points to.
C8_OneRunning ==
    /\ Cardinality({i \in Slots : state[i] = TASK_RUNNING}) <= 1
    /\ \A i \in Slots : state[i] = TASK_RUNNING => i = current_task

\* a timer IRQ has switched to a created task while the shell waits READY
C8_Witness ==
    /\ tick_count > 0
    /\ current_task /= 0
    /\ state[current_task] = TASK_RUNNING
    /\ state[0] = TASK_READY

\* ---- C9 ----------------------------------------------------------------
\* C9: task ids.  No two non-DEAD TCBs have the same id; id 0 belongs to the
\* shell in pool slot 0, which is never DEAD; every id in use is below
\* next_task_id, and a successful task_create gives the new task the value of
\* next_task_id and raises it, so each id assigned is greater than every id
\* assigned before.
C9_IdsState ==
    /\ \A i, j \in Alive : i /= j => id[i] /= id[j]
    /\ state[0] /= TASK_DEAD /\ id[0] = 0
    /\ \A i \in Alive : id[i] = 0 => i = 0
    /\ \A i \in Slots : id[i] < next_task_id

PsFinished == ps_runs > 0 /\ pc[0] = "run"

PagesHeld(t) == UNION {{run[1] + k : k \in 0 .. (run[2] - 1)} : run \in held_runs[t]}

\* C10: allocator calls of different tasks that the timer IRQ interleaves
\* leave what some serial order of the calls leaves: no page and no heap
\* block is held by two callers, and used_pages is the number of set bits
C10_AllocSerial ==
    /\ \A a \in Slots : \A b \in Slots \ {a} :
          /\ PagesHeld(a) \cap PagesHeld(b) = {}
          /\ held_blocks[a] \cap held_blocks[b] = {}
    /\ used_pages = Cardinality(page_bitmap)

\* ---- C11 ---------------------------------------------------------------

\* page_alloc_n(n) followed by page_free_n of what it returned, on bm and used
PageRoundTrip(bm, used, n) ==
    LET a == page_alloc_n(bm, used, n)
    IN IF a.ret = NULL
       THEN page_free_n(a.bitmap, a.used, 0, n)
       ELSE page_free_n(a.bitmap, a.used, a.ret, n)

\* C11: page round-trip.  In every allocator state and for every n from 1 to
\* the number of free pages, p = page_alloc_n(n) followed by page_free_n(p, n)
\* leaves the free-page count and the bitmap as they were, and p, when not
\* null, is a multiple of 4096.
C11_PageRoundTrip ==
    \A n \in 1 .. (total_pages - used_pages) :
        LET a == page_alloc_n(page_bitmap, used_pages, n)
            f == PageRoundTrip(page_bitmap, used_pages, n)
        IN /\ f.bitmap = page_bitmap
           /\ total_pages - f.used = total_pages - used_pages
           /\ a.ret /= NULL => a.ret % 4096 = 0

\* pages 1 and 3 are taken and page 2 between them is free, so that a run of
\* two is found past the hole and a run of three is not found at all
C11_Witness ==
    /\ page_bitmap = {0, 1, 3}
    /\ used_pages = 3
    /\ page_alloc_n(page_bitmap, used_pages, 2).ret = PageAddr(4)
    /\ page_alloc_n(page_bitmap, used_pages, 3).ret = NULL

\* ---- C12 ---------------------------------------------------------------

\* the headers met by following next from block blk, for at most fuel links
RECURSIVE FreeChain(_, _, _)
FreeChain(h, blk, fuel) ==
    IF blk = NULL \/ fuel = 0 THEN <<>>
    ELSE <<blk>> \o FreeChain(h, HeaderAt(h, blk).next, fuel - 1)

\* the free list is a finite list that ends in a null link with no block on it twice
FreeListWellFormed ==
    LET n == Cardinality(DOMAIN hdr)
        chain == FreeChain(hdr, free_list, n + 1)
    IN /\ Len(chain) <= n
       /\ \A a, b \in 1 .. Len(chain) : a /= b => chain[a] /= chain[b]

\* every pointer kmalloc returned and no kfree was given since has the magic before it
HeldHaveMagic ==
    \A t \in Slots : \A ptr \in held_blocks[t] :
        HeaderAt(hdr, ptr - HEADER_SIZE).magic = BLOCK_MAGIC

\* C12: heap magic.  Every pointer returned by kmalloc and not yet freed is
\* preceded by a header whose magic is the block magic; kfree of a pointer
\* whose header does not hold the magic (a pointer already freed included)
\* changes neither the free list, the heap brk nor the page bitmap; the free
\* list stays a finite acyclic list with no block on it twice.
C12_HeapMagic ==
    /\ [](HeldHaveMagic /\ FreeListWellFormed)
    /\ [][\A ptr \in FreePtrs :
            (kfree_call(ptr) /\ ptr /= NULL
                /\ HeaderAt(hdr, ptr - HEADER_SIZE).magic /= BLOCK_MAGIC) =>
                /\ UNCHANGED <<free_list, heap_brk, page_bitmap, used_pages>>
                /\ \A a \in DOMAIN hdr : hdr'[a].next = hdr[a].next]_vars

\* a pointer was freed a second time while its block was on the free list with
\* another block, and kfree printed its bad-magic line
C12_Witness ==
    /\ kfree_out = "bad magic"
    /\ free_list /= NULL
    /\ hdr[free_list].next /= NULL
    /\ \E t \in Slots : held_blocks[t] /= {}

\* ---- C13 ---------------------------------------------------------------

\* C13: task-pool exhaustion.  When all 8 pool slots hold non-DEAD tasks,
\* task_create returns without changing any TCB, the ready queue or the next
\* id to assign; the number of non-DEAD tasks never exceeds 8.
C13_PoolExhaustion ==
    /\ [](Cardinality(Alive) <= 8)
    /\ [][\A nm \in TaskNames :
            (task_create_upto(nm, MaxPoolId) /\ Cardinality(Alive) = 8) =>
                UNCHANGED <<state, id, name, sleep_until, next, pc,
                            ready_queue_head, current_task, next_task_id>>]_vars

\* a task_create has found the pool full and returned: the id it would have
\* assigned is still to be assigned
C13_Witness ==
    /\ no_slot
    /\ Cardinality(Alive) = 8
    /\ next_task_id = 8
    /\ ready_queue_head /= NULL

\* ---- C14 ---------------------------------------------------------------

\* no run of count consecutive clear bits exists in the bitmap
NoRun(bm, count) ==
    ~\E i \in 0 .. (total_pages - count) : \A j \in 0 .. (count - 1) : (i + j) \notin bm

\* the blocks on the free list
FreeBlocks == {FreeChain(hdr, free_list, Cardinality(DOMAIN hdr))[k] :
                 k \in 1 .. Len(FreeChain(hdr, free_list, Cardinality(DOMAIN hdr)))}

\* a request of size bytes (an unsigned long in limbs) cannot be satisfied: a
\* size of 2^30 or more exceeds the managed memory; a size that rounds above
\* PAGE_SIZE / 2 needs a run of pages for itself and its header, and there is
\* none; a smaller one finds no free block that holds it, no room below
\* heap_end, and no free page
CannotSatisfy(size) ==
    LET n == U64Clamp(size)
        total == RoundSize(n) + HEADER_SIZE
    IN IF ~U64Fits(size) THEN TRUE
       ELSE IF RoundSize(n) > PAGE_SIZE \div 2
       THEN NoRun(page_bitmap, PagesFor(total))
       ELSE /\ \A b \in FreeBlocks : hdr[b].size < n
            /\ heap_brk + total > heap_end
            /\ NoRun(page_bitmap, PagesFor(total))

\* C14: allocator exhaustion.  page_alloc_n returns null and leaves the bitmap
\* and the used-page counter unchanged when count is 0 or no run of count
\* consecutive free pages exists; kmalloc returns null and leaves heap brk,
\* free list, bitmap and counters unchanged when size is 0 or the request
\* cannot be satisfied from the free list, the arena or the page allocator.
C14_Exhaustion ==
    /\ [][\A count \in PageCounts \cup {0} :
            (page_alloc_n_call(count) /\ (count = 0 \/ NoRun(page_bitmap, count))) =>
                ret' = NULL /\ UNCHANGED <<page_bitmap, used_pages>>]_vars
    /\ [][\A size \in MemSizes :
            (kmalloc_call(size) /\ (size = U64Zero \/ CannotSatisfy(size))) =>
                ret' = NULL /\ UNCHANGED mem_vars]_vars

\* C14 for the requests whose size plus 15 and header stays below 2^30
C14_ExhaustionSmall ==
    /\ [][\A count \in PageCounts \cup {0} :
            (page_alloc_n_call(count) /\ (count = 0 \/ NoRun(page_bitmap, count))) =>
                ret' = NULL /\ UNCHANGED <<page_bitmap, used_pages>>]_vars
    /\ [][\A size \in {x \in MemSizes : U64Fits(x)} :
            (kmalloc_call(size) /\ (size = U64Zero \/ CannotSatisfy(size))) =>
                ret' = NULL /\ UNCHANGED mem_vars]_vars

\* ---- C15 ---------------------------------------------------------------

\* what dequeue_ready_task takes at tick now
Eligible(t, now) ==
    \/ state[t] = TASK_READY
    \/ state[t] = TASK_BLOCKED /\ sleep_until[t] <= now
\* the interrupted task is not put back in the queue and no TCB linked in the
\* queue can be taken at tick now
NoneEligible(now) ==
    /\ current_task /= NULL
    /\ state[current_task] /= TASK_RUNNING
    /\ \A t \in Queued : ~Eligible(t, now)
\* the fields of the TCB in slot i
TCB(i) == <<state[i], id[i], name[i], sleep_until[i], next[i], sp[i]>>

\* C15: when schedule_irq finds no eligible task in the ready queue, it keeps
\* the interrupted task as the current task, marks it RUNNING and returns the
\* stack pointer it was given; no TCB other than the current one is changed.
C15_NoEligible ==
    [][(TimerIRQ /\ scheduler_enabled /\ ~hung' /\ NoneEligible(tick_count')) =>
          /\ current_task' = current_task
          /\ state'[current_task] = TASK_RUNNING
          /\ irq_out' = irq_in'
          /\ \A i \in Slots \ {current_task} : TCB(i)' = TCB(i)]_vars

\* a task that exited is RUNNING again and still current, resumed on the sp
\* the IRQ was given, while a sleeper whose deadline is ahead waits in the queue
C15_Witness ==
    /\ pc[current_task] = "exit"
    /\ state[current_task] = TASK_RUNNING
    /\ irq_out = irq_in
    /\ irq_out = sp[current_task]
    /\ tick_count > 0
    /\ \E t \in Queued : t /= current_task /\ state[t] = TASK_BLOCKED
                                           /\ sleep_until[t] > tick_count

\* ---- C16 ---------------------------------------------------------------

\* C16: on every timer expiry handled by irq_handler_c the tick counter is
\* incremented by exactly one and the countdown register is rewritten with
\* the interval configured by timer_init, both when the scheduler is enabled
\* and when it is not; the tick counter never decreases.
C16_TimerRearm ==
    /\ [][TimerIRQ => /\ tick_count' = tick_count + 1
                      /\ cntp_tval' = TimerInterval(cntfrq, 100)
                      /\ cntp_tval' = timer_interval]_vars
    /\ [][tick_count' >= tick_count]_vars

\* two expiries were handled and the register holds a non-zero interval
C16_Witness ==
    /\ tick_count >= 2
    /\ irq_in /= 0
    /\ timer_interval > 0
    /\ cntp_tval = timer_interval

\* ---- C17 ---------------------------------------------------------------

\* memory_init, timer_init(100) and scheduler_init have completed
InitsDone ==
    /\ heap_brk >= heap_start /\ used_pages >= HEAP_PAGES
    /\ cntp_ctl = 1 /\ timer_interval = TimerInterval(cntfrq, 100)
    /\ current_task /= NULL /\ next_task_id >= 1

\* C17: boot ordering.  kernel_main unmasks IRQs only after memory_init,
\* timer_init and scheduler_init have completed, and no timer IRQ changes any
\* TCB, the ready queue or the stack pointer to resume before scheduler_init
\* has adopted task 0: irq_handler_c with no current task, or with the
\* scheduler not enabled, returns the stack pointer it was given.
C17_BootOrder ==
    /\ [](~irq_masked => InitsDone)
    /\ [][(TimerIRQ /\ (current_task = NULL \/ ~scheduler_enabled)) =>
            /\ irq_out' = irq_in'
            /\ UNCHANGED <<state, id, name, sleep_until, next, sp, tf,
                           ready_queue_head, current_task>>]_vars
    /\ [][TimerIRQ => current_task /= NULL]_vars

\* kernel_main is in its command loop with IRQs unmasked and a timer IRQ has
\* dispatched a task the shell created
C17_Witness ==
    /\ boot = "shell"
    /\ ~irq_masked
    /\ InitsDone
    /\ tick_count > 0
    /\ current_task /= NULL
    /\ current_task /= 0

\* ---- C18 ---------------------------------------------------------------

\* the number of the 2 MB block a virtual address lies in
VaBlock(v) == (v.l0 * 512 + v.l1) * 512 + v.l2
\* [0, 1 GB) and [3 GB, 4 GB)
InFirstGB(v) == v.l0 = 0 /\ v.l1 = 0
InFourthGB(v) == v.l0 = 0 /\ v.l1 = 3

ReadyQueue == QueueSeq(next, ready_queue_head, MAX_TASKS)
\* the ready queue as schedule_irq scans it: with the interrupted task put at
\* the tail if it was RUNNING
ScannedQueue ==
    IF state[current_task] = TASK_RUNNING THEN Append(ReadyQueue, current_task)
    ELSE ReadyQueue
\* eligible in that scan: READY (as the preempted task now is), or BLOCKED
\* with sleep_until <= the current tick
EligibleInScan(t, now) ==
    \/ Eligible(t, now)
    \/ t = current_task /\ state[current_task] = TASK_RUNNING
\* the position in q of the eligible task nearest the head, 0 if there is none
FirstEligible(q, now) ==
    IF \E k \in 1 .. Len(q) : EligibleInScan(q[k], now)
    THEN MinOf({k \in 1 .. Len(q) : EligibleInScan(q[k], now)})
    ELSE 0
\* q without its k-th element
RemoveAt(q, k) == SubSeq(q, 1, k - 1) \o SubSeq(q, k + 1, Len(q))

\* C19: strict FIFO dispatch.  Tasks enter the ready queue only at its tail
\* (on task_create and when a RUNNING task is preempted), and schedule_irq
\* always dispatches the eligible task nearest the head, where eligible means
\* READY, or BLOCKED with sleep_until <= current tick; the tasks it skips or
\* leaves behind keep their relative order.
C19_StrictFifo ==
    /\ [][(~TimerIRQ /\ ~hung') =>
            \A t \in Slots :
                (t \notin Queued /\ t \in Queued') => ReadyQueue' = Append(ReadyQueue, t)]_vars
    /\ [][(TimerIRQ /\ scheduler_enabled /\ ~hung') =>
            LET k == FirstEligible(ScannedQueue, tick_count') IN
            IF k = 0
            THEN ReadyQueue' = ScannedQueue
            ELSE /\ current_task' = ScannedQueue[k]
                 /\ ReadyQueue' = RemoveAt(ScannedQueue, k)]_vars

\* ---- C20 ---------------------------------------------------------------

\* the task in slot i called task_exit or returned into the trampoline, and
\* its slot has not been given to a new task
Exited(i) == pc[i] = "exit" /\ state[i] = TASK_DEAD

\* C20: task exit.  After a task calls task_exit or returns from its entry
\* function into the exit trampoline, its state is DEAD, no later schedule_irq
\* makes it RUNNING or enqueues it again, and its pool slot is taken by a later
\* task_create, which re-initialises its state, id, sleep_until, queue link and
\* trapframe.
C20_TaskExit ==
    /\ [][(task_exit \/ task_exit_trampoline) => Exited(current_task)']_vars
    /\ [][TimerIRQ =>
            \A i \in Slots :
                Exited(i) => /\ state'[i] = TASK_DEAD
                             /\ (i \notin Queued => i \notin Queued')]_vars
    /\ [][\A nm \in TaskNames :
            (task_create(nm) /\ FreeSlots /= {} /\ ~hung') =>
                LET i == MinOf(FreeSlots) IN
                /\ state'[i] = TASK_READY
                /\ id'[i] = next_task_id
                /\ sleep_until'[i] = 0
                /\ next'[i] = NULL
                /\ sp'[i] = init_task_trapframe(i)
                /\ pc'[i] = "run"]_vars

\* ---- C21 ---------------------------------------------------------------

\* C21: no task is lost.  In every reachable state every task whose state is
\* READY, and every BLOCKED task that is not the current task, is linked in
\* the ready queue, so that under continuing timer IRQs every READY task is
\* eventually dispatched.
C21_NoTaskLost ==
    \A i \in Slots :
        (\/ state[i] = TASK_READY
         \/ state[i] = TASK_BLOCKED /\ i /= current_task) => i \in Queued

\* ---- C22 ---------------------------------------------------------------

\* the task in slot i waits in task_sleep and another task is READY
SleepsBesideReady(i) ==
    /\ pc[i] = "sleep"
    /\ state[i] = TASK_BLOCKED
    /\ \E j \in Slots \ {i} : state[j] = TASK_READY

\* C22: in the scheduler variant of src/src/drivers/task.c (task_sleep
\* records the caller in `me`, marks it BLOCKED and does not enqueue it), a
\* task that calls task_sleep(m) while at least one other task is READY is,
\* under continuing timer IRQs, eventually set back to READY/RUNNING by the
\* scheduler after its deadline, so that task_sleep returns.
C22_VariantWakes ==
    \A i \in Slots :
        SleepsBesideReady(i) ~> (state[i] = TASK_READY \/ state[i] = TASK_RUNNING)

\* ---- C23 ---------------------------------------------------------------

\* the statements at which a call has made its first write to the TCB pool
\* or the ready queue and not yet its last
BetweenWrites == {"ts_state", "ts_enqueue", "tc_frame", "tc_enqueue", "tk_dead"}
\* the statements of task_exit around its one write
ExitWrite == {"te_state"}

\* C23: scheduler mutations are atomic with respect to preemption: no timer
\* IRQ (schedule_irq) runs between the first and the last write that
\* task_create, task_kill or task_sleep make to the TCB pool and the ready
\* queue, nor at the state update of task_exit, because each call makes
\* them with IRQs masked.
C23_AtomicCalls ==
    /\ [](\A i \in Slots :
            pc[i] \in BetweenWrites \cup ExitWrite => i = current_task /\ irq_masked)
    /\ [][tick_count' /= tick_count =>
            pc[current_task] \notin BetweenWrites \cup ExitWrite]_vars

\* task_sleep has written the deadline and BLOCKED and not yet the queue,
\* while another task is READY and the timer has ticked
C23_Witness ==
    /\ pc[current_task] = "ts_enqueue"
    /\ state[current_task] = TASK_BLOCKED
    /\ tick_count > 0
    /\ \E j \in Slots : state[j] = TASK_READY

\* ---- C26 ---------------------------------------------------------------

\* C26: wait-for-interrupt is never executed with IRQs masked: whenever the
\* running task is in the wfi loop of task_sleep, task_exit or the exit
\* trampoline, PSTATE.I is clear, so the timer IRQ can preempt it.
C26_WfiUnmasked ==
    (current_task /= NULL /\ pc[current_task] \in {"sleep", "exit"}) => ~irq_masked

\* a task waits in the wfi loop of task_sleep after its critical section
C26_Witness ==
    /\ pc[current_task] = "sleep"
    /\ state[current_task] = TASK_BLOCKED
    /\ current_task /= 0
    /\ ~irq_masked

\* ---- C24 ---------------------------------------------------------------

\* task_create filled slot i in this step
Created(i) == state[i] = TASK_DEAD /\ state'[i] = TASK_READY

\* the addresses task_pool can get from the linker, as far as the alignment
\* of a frame goes: task_t is 8-byte aligned
PoolAddrs == {TaskPoolAddr, TaskPoolAddr + 8}

\* a frame of 34 words at address a lies inside the stack of slot i
InsideStack(pool, i, a) ==
    /\ StackBaseAt(pool, i) <= a
    /\ a + 8 * TRAPFRAME_SIZE <= StackEndAt(pool, i)

\* C24: synthesised trapframe.  For every task created by task_create, the
\* saved sp is 16-byte aligned and points to a 34-word frame lying entirely
\* inside that task's own 8 KB stack, in which words 0..29 and 33 are zero,
\* word 30 (x30) is the exit trampoline, word 31 (the exception-return
\* address) is the entry point and word 32 (the saved processor state) is
\* 0x5: supervisor mode with IRQs unmasked.
C24_Trapframe ==
    /\ [](\A pool \in PoolAddrs : \A i \in Slots :
            LET a == StackTopAt(pool, i) - 8 * TRAPFRAME_SIZE IN
            a % 16 = 0 /\ InsideStack(pool, i, a))
    /\ [][\A i \in Slots : Created(i) =>
            /\ sp'[i] % 16 = 0
            /\ tf'[i].at = sp'[i]
            /\ InsideStack(TaskPoolAddr, i, sp'[i])
            /\ DOMAIN tf'[i].w = 0 .. 33
            /\ \A k \in (0 .. 29) \cup {33} : tf'[i].w[k] = 0
            /\ tf'[i].w[30] = TrampolineAddr
            /\ tf'[i].w[31] = EntryOf(name'[i])
            /\ tf'[i].w[32] = 5]_vars

\* a task other than the first created holds a synthesised frame and the
\* scheduler has dispatched a task since
C24_Witness ==
    /\ \E i \in Slots \ {0, 1} :
          state[i] = TASK_READY /\ tf[i].at = sp[i] /\ tf[i].w /= <<>>
    /\ current_task /= 0

\* ---- C25 ---------------------------------------------------------------

\* C25: task_sleep rounding.  For every value of ms in the 32-bit unsigned
\* range, task_sleep(ms) sets sleep_until to the current tick count plus
\* ceil(ms/100).
C25_SleepRounding ==
    [][\A ms \in WideMs :
          task_sleep_u(ms[1], ms[2]) =>
              sleep_until'[current_task] = tick_count + CeilU(ms[1], ms[2])]_vars

\* ---- C27 ---------------------------------------------------------------

\* the local pages i .. i + count - 1
PageRun(i, count) == i .. (i + count - 1)
\* the first pages of the runs of count free pages of the managed region
FreeRunStarts(count) ==
    {i \in 0 .. (MANAGED_PAGES - count) : PageRun(i, count) \cap page_bitmap = {}}
\* the pages of the heap arena
ArenaPages == 0 .. (HEAP_PAGES - 1)

\* page_alloc_n(count) returns the run that starts at local page i to the
\* running task in this step
RunReturned(i, count) ==
    /\ <<i, count>> \in held_runs'[current_task]
    /\ <<i, count>> \notin held_runs[current_task]

\* C27: page_alloc_n(count) for count >= 1 returns the address of the
\* lowest-addressed run of count consecutive free pages of the managed
\* region, marks exactly those count pages allocated, increases used_pages by
\* count and changes no other bit; the pages it returns include no page that
\* is allocated and no page of the heap arena (page_free_n being called only
\* on runs obtained from page_alloc_n).
C27_PageAllocN ==
    [][\A count \in PageCounts : \A i \in 0 .. (MANAGED_PAGES - 1) :
          RunReturned(i, count) =>
              /\ FreeRunStarts(count) /= {}
              /\ i = MinOf(FreeRunStarts(count))
              /\ page_bitmap' = page_bitmap \cup PageRun(i, count)
              /\ used_pages' = used_pages + count
              /\ PageRun(i, count) \cap page_bitmap = {}
              /\ PageRun(i, count) \cap ArenaPages = {}]_vars

\* ---- C28 ---------------------------------------------------------------

\* the bitmap and the counter as page_free_n returns them
PageState(bm, used) == [bitmap |-> bm, used |-> used]

\* C28: page_free_n is idempotent and rejects low addresses.  Calling
\* page_free_n(addr, count) twice in a row leaves the same bitmap and the
\* same used/free counters as calling it once, and page_free_n with an
\* address below the managed base changes nothing.
C28_FreeIdempotent ==
    [][\A addr \in FreeAddrs : \A count \in PageCounts :
          page_free_n_any(addr, count) =>
              /\ page_free_n(page_bitmap', used_pages', addr, count)
                     = PageState(page_bitmap', used_pages')
              /\ addr < heap_start => UNCHANGED <<page_bitmap, used_pages>>]_vars

\* ---- C29 ---------------------------------------------------------------

\* C29: counter/bitmap agreement.  After memory_init and any sequence of
\* page_alloc_n, page_free_n (with any address and count, addresses at or
\* beyond the end of the managed region included), kmalloc and kfree calls,
\* used_pages equals the number of set bits of the bitmap,
\* 0 <= used_pages <= total_pages, and free pages + used pages = total pages.
C29_CounterBitmap ==
    /\ used_pages = Cardinality(page_bitmap)
    /\ 0 <= used_pages
    /\ used_pages <= total_pages
    /\ (total_pages - used_pages) + used_pages = total_pages

\* ---- C30 ---------------------------------------------------------------

\* the free list from its head, as the sequence of its headers
FreeSeq == FreeChain(hdr, free_list, Cardinality(DOMAIN hdr) + 1)
FreeSeqNext == FreeChain(hdr', free_list', Cardinality(DOMAIN hdr') + 1)
\* the positions of the free list whose block holds sz bytes
Fits(sz) == {k \in 1 .. Len(FreeSeq) : hdr[FreeSeq[k]].size >= sz}
\* a call of kmalloc on the path op returns in this step
KmallocReturns(op) ==
    /\ call[current_task].op = op
    /\ call'[current_task].op = "none"
\* the blocks of the arena the running task holds
ArenaBlocksHeld ==
    {ptr \in held_blocks[current_task] :
        /\ (ptr - HEADER_SIZE) \in DOMAIN hdr
        /\ hdr[ptr - HEADER_SIZE].magic = BLOCK_MAGIC
        /\ hdr[ptr - HEADER_SIZE].is_page_alloc = 0}

\* C30: kmalloc request flow for a request whose 16-byte-rounded size is at
\* most PAGE_SIZE/2.  It returns the first block on the free list whose
\* recorded size is >= the rounded size and removes it from the list; only
\* if no free block fits does it carve a new block at brk and advance brk by
\* header + size; only if the arena cannot hold it does it fall back to
\* whole pages.  Consequently kmalloc(s) issued right after kfree(p) of an
\* arena block with size >= s returns p.
\* (A request has s >= 1: kmalloc(0) returns the null pointer at once.)
C30_KmallocFlow ==
    /\ [][LET c == call[current_task]
              total == c.size + HEADER_SIZE
          IN /\ KmallocReturns("kmalloc_reuse") =>
                   /\ Fits(c.size) /= {}
                   /\ c.blk = FreeSeq[MinOf(Fits(c.size))]
                   /\ FreeSeqNext = RemoveAt(FreeSeq, MinOf(Fits(c.size)))
                   /\ (c.blk + HEADER_SIZE) \in held_blocks'[current_task]
             /\ KmallocReturns("kmalloc_brk") =>
                   /\ Fits(c.size) = {}
                   /\ heap_brk + total <= heap_end
                   /\ c.blk = heap_brk
                   /\ heap_brk' = heap_brk + total
                   /\ (heap_brk + HEADER_SIZE) \in held_blocks'[current_task]
             /\ (KmallocReturns("kmalloc_pages") /\ c.size <= PAGE_SIZE \div 2) =>
                   /\ Fits(c.size) = {}
                   /\ heap_brk + total > heap_end]_vars
    /\ [](\A p \in ArenaBlocksHeld :
            \A s \in {1, 16, hdr[p - HEADER_SIZE].size} :
                (1 <= s /\ s <= hdr[p - HEADER_SIZE].size) =>
                    kmalloc(kfree_ptr(Mem, p), U64Of(s)).ret = p)

\* ---- C31 ---------------------------------------------------------------

\* the size kmalloc works with, (size + 15) & ~15UL, HugeSize from 2^30 up
RoundedOf(size) == U64Clamp(U64Round(size))
\* ceil((rounded size + header size) / PAGE_SIZE); more pages than the
\* managed region has when the rounded size is 2^30 or more
CeilPages(size) ==
    IF U64Fits(U64Round(size)) THEN PagesFor(RoundedOf(size) + HEADER_SIZE)
    ELSE HugeSize \div PAGE_SIZE

\* C31: large-block round trip.  kmalloc(size) whose rounded size exceeds
\* PAGE_SIZE/2 reserves exactly ceil((rounded size + header size)/PAGE_SIZE)
\* contiguous pages, and kfree of the returned pointer gives back exactly
\* those pages, restoring the used-page count and the bitmap to their values
\* before the kmalloc while leaving brk and the free list unchanged.
C31_LargeRoundTrip ==
    [][\A size \in MemSizes :
          (kmalloc_call(size) /\ RoundedOf(size) > PAGE_SIZE \div 2 /\ ret' /= NULL) =>
              LET got == page_bitmap' \ page_bitmap
                  back == kfree_ptr([bitmap |-> page_bitmap', used |-> used_pages',
                                     brk |-> heap_brk', fl |-> free_list', hdr |-> hdr'],
                                    ret')
              IN /\ Cardinality(got) = CeilPages(size)
                 /\ got = PageRun(LocalPage(ret' - HEADER_SIZE), CeilPages(size))
                 /\ used_pages' = used_pages + CeilPages(size)
                 /\ back.bitmap = page_bitmap
                 /\ back.used = used_pages
                 /\ back.brk = heap_brk /\ heap_brk' = heap_brk
                 /\ back.fl = free_list /\ free_list' = free_list]_vars

\* ---- C32 ---------------------------------------------------------------

\* the blocks returned by kmalloc and not freed since
LiveBlocks == UNION {held_blocks[i] : i \in DOMAIN held_blocks}
\* the payload bytes the memory reserved for the block at ptr has room for:
\* the pages of a page-backed block less its header, the recorded size of an
\* arena block
RoomOf(h, ptr) ==
    LET rec == h[ptr - HEADER_SIZE]
    IN IF rec.is_page_alloc > 0 THEN rec.is_page_alloc * PAGE_SIZE - HEADER_SIZE
       ELSE rec.size
\* the first byte after the memory of the block at ptr
BlockEnd(ptr) == ptr + RoomOf(hdr, ptr)
\* header and payload of the blocks at p and q share no byte
Disjoint(p, q) == BlockEnd(p) <= q - HEADER_SIZE \/ BlockEnd(q) <= p - HEADER_SIZE

\* C32: live heap blocks never overlap.  After any sequence of kmalloc and
\* kfree calls made one at a time (each kfree on a pointer obtained from
\* kmalloc), the memory ranges header + payload of all blocks returned and
\* not yet freed are pairwise disjoint, each has room for the size
\* requested, and no live block is on the free list; this holds also for
\* blocks reused from the free list and for page-backed blocks.
C32_NoOverlap ==
    /\ [](\A p \in LiveBlocks :
            /\ \A q \in LiveBlocks \ {p} : Disjoint(p, q)
            /\ (p - HEADER_SIZE) \notin FreeBlocks
            /\ hdr[p - HEADER_SIZE].is_page_alloc = 0 => BlockEnd(p) <= heap_brk)
    /\ [][\A size \in MemSizes :
            (kmalloc_call(size) /\ ret' /= NULL) =>
                /\ U64Fits(size)
                /\ U64Clamp(size) <= RoomOf(hdr', ret')]_vars

\* ---- smp.c: spin_lock and spin_unlock, instruction by instruction -------

\* the status stxr writes to its result register: 0 when the store is done
stxr_always(mon) == 0

\* the status stxr writes to its result register: 0 when the core still holds
\* the exclusive monitor and the store is done, 1 when it lost the monitor
stxr_status(mon) == IF mon THEN 0 ELSE 1

\* what a step inside spin_lock / spin_unlock leaves alone
LockFrame ==
    UNCHANGED <<sched_vars, hist_vars, ps_vars, alloc_vars, stack_vars, boot_vars, mmu_vars,
                smp_vars, fs_vars, shell_vars>>

\* core c calls spin_lock: sevl sets its own event register
sl_sevl(c) ==
    /\ lk_pc[c] = "out"
    /\ event' = [event EXCEPT ![c] = TRUE]
    /\ lk_pc' = [lk_pc EXCEPT ![c] = "wfe"]
    /\ waited' = [waited EXCEPT ![c] = FALSE]
    /\ UNCHANGED <<lock, monitor>>
    /\ LockFrame

\* 1: wfe returns once the event register is set, and clears it
sl_wfe(c) ==
    /\ lk_pc[c] = "wfe"
    /\ event[c]
    /\ event' = [event EXCEPT ![c] = FALSE]
    /\ lk_pc' = [lk_pc EXCEPT ![c] = "ldaxr"]
    /\ UNCHANGED <<lock, monitor, waited>>
    /\ LockFrame

\* 2: ldaxr val, [lock]; cbnz val, 1b
sl_ldaxr(c) ==
    /\ lk_pc[c] = "ldaxr"
    /\ monitor' = [monitor EXCEPT ![c] = TRUE]
    /\ IF lock /= 0
       THEN /\ lk_pc' = [lk_pc EXCEPT ![c] = "wfe"]
            /\ waited' = [waited EXCEPT ![c] = TRUE]
       ELSE /\ lk_pc' = [lk_pc EXCEPT ![c] = "stxr"]
            /\ UNCHANGED waited
    /\ UNCHANGED <<lock, event>>
    /\ LockFrame

\* stxr tmp, 1, [lock]; cbnz tmp, 2b.  A store that is done takes the
\* monitor from every core.
sl_stxr(c) ==
    /\ lk_pc[c] = "stxr"
    /\ IF stxr_status(monitor[c]) = 0
       THEN /\ lock' = 1
            /\ monitor' = [d \in LockCores |-> FALSE]
            /\ lk_pc' = [lk_pc EXCEPT ![c] = "in"]
       ELSE /\ lk_pc' = [lk_pc EXCEPT ![c] = "ldaxr"]
            /\ UNCHANGED <<lock, monitor>>
    /\ UNCHANGED <<event, waited>>
    /\ LockFrame

\* the holder calls spin_unlock: stlr 0, [lock]
su_stlr(c) ==
    /\ lk_pc[c] = "in"
    /\ lock' = 0
    /\ monitor' = [d \in LockCores |-> FALSE]
    /\ lk_pc' = [lk_pc EXCEPT ![c] = "sev"]
    /\ UNCHANGED <<event, waited>>
    /\ LockFrame

\* sev sets the event register of every core
su_sev(c) ==
    /\ lk_pc[c] = "sev"
    /\ event' = [d \in LockCores |-> TRUE]
    /\ lk_pc' = [lk_pc EXCEPT ![c] = "out"]
    /\ UNCHANGED <<lock, monitor, waited>>
    /\ LockFrame

\* the steps of core c once it is inside spin_lock or holds the lock
LockStep(c) == sl_wfe(c) \/ sl_ldaxr(c) \/ sl_stxr(c) \/ su_stlr(c) \/ su_sev(c)

NextLock ==
    \/ \E c \in LockCores : sl_sevl(c)
    \/ \E c \in LockCores : sl_wfe(c)
    \/ \E c \in LockCores : sl_ldaxr(c)
    \/ \E c \in LockCores : sl_stxr(c)
    \/ \E c \in LockCores : su_stlr(c)
    \/ \E c \in LockCores : su_sev(c)

SpecLock == Init /\ [][NextLock]_vars

\* every core that is inside spin_lock or holds the lock keeps executing: a
\* holder reaches its spin_unlock, a waiter its next instruction
SpecLockFair == SpecLock /\ \A c \in LockCores : WF_vars(LockStep(c))

\* ---- C33 ---------------------------------------------------------------

\* core c is inside spin_lock
Waiting(c) == lk_pc[c] \in {"wfe", "ldaxr", "stxr"}
\* core c is between a returned spin_lock and its spin_unlock
Holds(c) == lk_pc[c] = "in"
\* at most one core holds the lock, and the lock word is 1 while it does
MutualExclusion ==
    /\ Cardinality({c \in LockCores : Holds(c)}) <= 1
    /\ \A c \in LockCores : Holds(c) => lock = 1
\* a core that stands at wfe with its event register clear is woken: the
\* lock is taken, or the core that released it stands before its sev
NoLostWakeUp ==
    \A c \in LockCores :
        (lk_pc[c] = "wfe" /\ ~event[c]) =>
            lock = 1 \/ \E d \in LockCores : lk_pc[d] = "sev"

\* C33 as stated: for any number of cores calling spin_lock and spin_unlock
\* on the same lock, at most one core is between a returned spin_lock and
\* its spin_unlock at any time, and, if every holder eventually calls
\* spin_unlock, a core waiting in spin_lock eventually acquires the lock.
C33_WaiterAcquires ==
    /\ []MutualExclusion
    /\ \A c \in LockCores : Waiting(c) ~> Holds(c)

\* C33: at most one core is between a returned spin_lock and its
\* spin_unlock at any time; no wake-up is lost (a core stopped at wfe with
\* no event pending has the lock taken or the sev of the releasing core
\* still to come); and, if every holder eventually calls spin_unlock,
\* whenever a core waits in spin_lock while the lock is free some core
\* acquires the lock.
C33_Spinlock ==
    /\ [](MutualExclusion /\ NoLostWakeUp)
    /\ \A c \in LockCores : (Waiting(c) /\ lock = 0) ~> (\E d \in LockCores : Holds(d))

\* a core that found the lock taken and waited holds it now, while another
\* core sleeps in wfe
C33_Witness ==
    \E c \in LockCores :
        /\ Holds(c) /\ waited[c]
        /\ \E d \in LockCores \ {c} : lk_pc[d] = "wfe" /\ ~event[d]

\* ---- smp.c: smp_init and secondary_core_main ------------------------------

MaxSmpTick == 2
MaxSmpId == 1
MaxCoreTicks == 1

\* CORE_STACK_SIZE
CORE_STACK_SIZE == 16 * 1024
\* the address of core_stacks in .bss
CoreStacksAddr == 589824
\* &core_stacks[k][CORE_STACK_SIZE]
CoreStackTop(k) == CoreStacksAddr + k * CORE_STACK_SIZE + CORE_STACK_SIZE
\* the bytes of core_stacks[k]
CoreStack(k) == (CoreStacksAddr + k * CORE_STACK_SIZE) .. (CoreStackTop(k) - 1)
\* tcr_el1 as mmu_init wrote it: T0SZ 16, IRGN0 1, ORGN0 1, SH0 3, T1SZ 16, IPS 2
TcrEl1 == <<0, 2, 16, 16 + 256 + 1024 + 3 * 4096>>
\* mair_el1 as mmu_init wrote it
MairEl1 == 0 * (256 ^ MT_DEVICE) + 255 * (256 ^ MT_NORMAL)
\* what mrs reads on core 0 after mmu_init
Core0Regs == [ttbr0 |-> l0_table, tcr |-> TcrEl1, mair |-> MairEl1]
\* the address of secondary_entry
SecondaryEntry == 532480
\* CNTP_IRQ_ENABLE
CNTP_IRQ_ENABLE == 2

\* smp_init with the first spin-table store moved before the stores of the
\* stack pointers, the MMU values and the dsb
smp_init_wake_first ==
    <<"cores", "wake1", "stacks", "share", "dsb", "wake2", "wake3", "wait", "done">>

\* the statements of smp_init in program order
smp_init_order ==
    <<"cores", "stacks", "share", "dsb", "wake1", "wake2", "wake3", "wait", "done">>

SmpAfter(stmt) ==
    smp_init_order[1 + CHOOSE k \in 1 .. Len(smp_init_order) - 1 : smp_init_order[k] = stmt]

\* a step of core 0 or of a secondary core outside the scheduler leaves these alone
SmpFrame ==
    UNCHANGED <<sched_vars, hist_vars, ps_vars, alloc_vars, stack_vars, boot, scheduler_enabled,
                irq_masked, cntfrq, cntp_tval, cntp_ctl, mmu_vars, lock_vars, fs_vars,
                shell_vars>>

\* core 0 stores value at location loc: the store waits in its write buffer
Store(loc, value) == wbuf' = [l \in DOMAIN wbuf \cup {loc} |-> IF l = loc THEN value ELSE wbuf[l]]

\* cores[i].online = 0 (1 for core 0), ticks = 0, tasks_run = 0
smp_cores ==
    /\ smp_pc = "cores"
    /\ smp_pc' = SmpAfter("cores")
    /\ Store("cores", [c \in 0 .. (NUM_CORES - 1) |->
                          [online |-> IF c = 0 THEN 1 ELSE 0, ticks |-> 0, tasks_run |-> 0]])
    /\ UNCHANGED <<shmem, cores, sec_pc, sec_regs, core_timer, core_gic, smp_out, timer_interval>>
    /\ SmpFrame

\* smp_stacks[0] = 0; smp_stacks[k] = &core_stacks[k - 1][CORE_STACK_SIZE]
smp_stacks ==
    /\ smp_pc = "stacks"
    /\ smp_pc' = SmpAfter("stacks")
    /\ Store("stacks", [c \in 0 .. (NUM_CORES - 1) |-> IF c = 0 THEN 0 ELSE CoreStackTop(c - 1)])
    /\ UNCHANGED <<shmem, cores, sec_pc, sec_regs, core_timer, core_gic, smp_out, timer_interval>>
    /\ SmpFrame

\* mrs smp_shared_ttbr0 / smp_shared_tcr / smp_shared_mair
smp_share ==
    /\ smp_pc = "share"
    /\ smp_pc' = SmpAfter("share")
    /\ Store("shared", Core0Regs)
    /\ UNCHANGED <<shmem, cores, sec_pc, sec_regs, core_timer, core_gic, smp_out, timer_interval>>
    /\ SmpFrame

\* dsb sy completes once every earlier store has reached memory
smp_dsb ==
    /\ smp_pc = "dsb"
    /\ DOMAIN wbuf = {}
    /\ smp_pc' = SmpAfter("dsb")
    /\ UNCHANGED <<wbuf, shmem, cores, sec_pc, sec_regs, core_timer, core_gic, smp_out,
                   timer_interval>>
    /\ SmpFrame

\* *(volatile unsigned long *)0xE0 / 0xE8 / 0xF0 = entry; sev
smp_wake(c) ==
    /\ smp_pc = <<"wake1", "wake2", "wake3">>[c]
    /\ smp_pc' = SmpAfter(smp_pc)
    /\ Store(<<"slot1", "slot2", "slot3">>[c], SecondaryEntry)
    /\ UNCHANGED <<shmem, cores, sec_pc, sec_regs, core_timer, core_gic, smp_out, timer_interval>>
    /\ SmpFrame

\* the wait loop ends at its deadline or when cores 1 to 3 are online;
\* smp_init then counts and prints the cores that are online
smp_wait ==
    /\ smp_pc = "wait"
    /\ smp_pc' = SmpAfter("wait")
    /\ smp_out' = Cardinality({c \in 0 .. (NUM_CORES - 1) :
                                 IF c = 0 /\ "cores" \in DOMAIN wbuf THEN TRUE
                                 ELSE cores[c].online /= 0})
    /\ UNCHANGED <<wbuf, shmem, cores, sec_pc, sec_regs, core_timer, core_gic, timer_interval>>
    /\ SmpFrame

\* a store of core 0 reaches memory; stores to different locations may do so
\* in any order
smp_drain(loc) ==
    /\ loc \in DOMAIN wbuf
    /\ wbuf' = [l \in DOMAIN wbuf \ {loc} |-> wbuf[l]]
    /\ IF loc = "cores"
       THEN cores' = wbuf[loc] /\ UNCHANGED shmem
       ELSE /\ UNCHANGED cores
            /\ shmem' = IF loc = "stacks" THEN [shmem EXCEPT !.stacks = wbuf[loc]]
                        ELSE IF loc = "shared" THEN [shmem EXCEPT !.shared = wbuf[loc]]
                        ELSE IF loc = "slot1" THEN [shmem EXCEPT !.slot[1] = wbuf[loc]]
                        ELSE IF loc = "slot2" THEN [shmem EXCEPT !.slot[2] = wbuf[loc]]
                        ELSE [shmem EXCEPT !.slot[3] = wbuf[loc]]
    /\ UNCHANGED <<smp_pc, sec_pc, sec_regs, core_timer, core_gic, smp_out, timer_interval>>
    /\ SmpFrame

\* secondary core c finds its spin-table slot written and jumps to it
sec_start(c) ==
    /\ sec_pc[c] = "parked"
    /\ shmem.slot[c] /= 0
    /\ sec_pc' = [sec_pc EXCEPT ![c] = "entry"]
    /\ UNCHANGED <<smp_pc, wbuf, shmem, cores, sec_regs, core_timer, core_gic, smp_out,
                   timer_interval>>
    /\ SmpFrame

\* secondary_entry: load the shared MMU configuration, enable the MMU, load
\* smp_stacks[core_id] into sp, call secondary_core_main
secondary_entry(c) ==
    /\ sec_pc[c] = "entry"
    /\ sec_pc' = [sec_pc EXCEPT ![c] = "timer_init"]
    /\ sec_regs' = [sec_regs EXCEPT ![c] =
                      [sp |-> shmem.stacks[c], ttbr0 |-> shmem.shared.ttbr0,
                       tcr |-> shmem.shared.tcr, mair |-> shmem.shared.mair]]
    /\ UNCHANGED <<smp_pc, wbuf, shmem, cores, core_timer, core_gic, smp_out, timer_interval>>
    /\ SmpFrame

\* secondary_core_main: timer_init(100)
sc_timer_init(c) ==
    /\ sec_pc[c] = "timer_init"
    /\ sec_pc' = [sec_pc EXCEPT ![c] = "gic"]
    /\ timer_interval' = TimerInterval(cntfrq, 100)
    /\ core_timer' = [core_timer EXCEPT ![c] = [tval |-> TimerInterval(cntfrq, 100), ctl |-> 1]]
    /\ UNCHANGED <<smp_pc, wbuf, shmem, cores, sec_regs, core_gic, smp_out>>
    /\ SmpFrame

\* gic_enable_timer_irq_core(core_id); gic_init_core()
sc_gic(c) ==
    /\ sec_pc[c] = "gic"
    /\ sec_pc' = [sec_pc EXCEPT ![c] = "online"]
    /\ core_gic' = [core_gic EXCEPT ![c] = [route |-> CNTP_IRQ_ENABLE, ctlr |-> 1, pmr |-> 255]]
    /\ UNCHANGED <<smp_pc, wbuf, shmem, cores, sec_regs, core_timer, smp_out, timer_interval>>
    /\ SmpFrame

\* cores[core_id].online = 1; .ticks = 0; .tasks_run = 0
sc_online(c) ==
    /\ sec_pc[c] = "online"
    /\ sec_pc' = [sec_pc EXCEPT ![c] = "poll"]
    /\ cores' = [cores EXCEPT ![c] = [online |-> 1, ticks |-> 0, tasks_run |-> 0]]
    /\ UNCHANGED <<smp_pc, wbuf, shmem, sec_regs, core_timer, core_gic, smp_out, timer_interval>>
    /\ SmpFrame

\* the timer of secondary core c runs down: ISTATUS is set
core_timer_expires(c) ==
    /\ core_timer[c].ctl = 1
    /\ sec_pc[c] = "poll" => cores[c].ticks < MaxCoreTicks
    /\ core_timer' = [core_timer EXCEPT ![c] = [tval |-> 0, ctl |-> 5]]
    /\ UNCHANGED <<smp_pc, wbuf, shmem, cores, sec_pc, sec_regs, core_gic, smp_out,
                   timer_interval>>
    /\ SmpFrame

\* ctl & 0x4
ISTATUS(ctl) == (ctl \div 4) % 2 = 1

\* a poll loop that counts two ticks for one expiry
core_tick_twice(t) == t + 2

\* cores[core_id].ticks++
core_tick(t) == t + 1

\* one turn of the while loop of secondary_core_main: read cntp_ctl_el0 and,
\* if ISTATUS is set, re-arm the timer and count the tick
sc_poll(c) ==
    /\ sec_pc[c] = "poll"
    /\ IF ISTATUS(core_timer[c].ctl)
       THEN /\ core_timer' = [core_timer EXCEPT ![c] =
                                 [tval |-> (cntfrq \div 1000) * 100, ctl |-> 1]]
            /\ cores' = [cores EXCEPT ![c].ticks = core_tick(@)]
       ELSE UNCHANGED <<core_timer, cores>>
    /\ UNCHANGED <<smp_pc, wbuf, shmem, sec_pc, sec_regs, core_gic, smp_out, timer_interval>>
    /\ SmpFrame

\* a step of secondary core c from secondary_core_main
SecondaryMain(c) == sc_timer_init(c) \/ sc_gic(c) \/ sc_online(c) \/ sc_poll(c)

NextSmp ==
    \/ smp_cores
    \/ smp_stacks
    \/ smp_share
    \/ smp_dsb
    \/ \E c \in Secondaries : smp_wake(c)
    \/ smp_wait
    \/ \E loc \in {"cores", "stacks", "shared", "slot1", "slot2", "slot3"} : smp_drain(loc)
    \/ \E c \in Secondaries : sec_start(c)
    \/ \E c \in Secondaries : secondary_entry(c)
    \/ \E c \in Secondaries : sc_timer_init(c)
    \/ \E c \in Secondaries : sc_gic(c)
    \/ \E c \in Secondaries : sc_online(c)
    \/ \E c \in Secondaries : core_timer_expires(c)
    \/ \E c \in Secondaries : sc_poll(c)
    \/ tick_count < MaxSmpTick /\ TimerIRQ /\ UNCHANGED <<ps_vars, alloc_vars>>
    \/ (\E nm \in TaskNames : task_create_upto(nm, MaxSmpId))
           /\ UNCHANGED <<ps_vars, alloc_vars>> /\ CreateFrame

SpecSmp == Init /\ [][NextSmp]_vars

\* ---- C34 ---------------------------------------------------------------

\* secondary core c has executed its entry stub
Started(c) == sec_pc[c] \notin {"parked", "entry"}

\* C34: publish before wake.  smp_init writes the three secondary stack-top
\* pointers (pairwise distinct, one 16 KB stack each) and the primary core's
\* translation-table base, translation-control and attribute-indirection
\* values, and issues a data-synchronisation barrier, before it writes the
\* entry address to any spin-table slot; so a secondary core that starts
\* running reads its own stack pointer and the same MMU configuration as
\* core 0.
C34_PublishBeforeWake ==
    /\ [](\A c \in Secondaries :
            /\ (shmem.slot[c] /= 0 \/ DOMAIN wbuf \cap {"slot1", "slot2", "slot3"} /= {}) =>
                  /\ DOMAIN wbuf \cap {"cores", "stacks", "shared"} = {}
                  /\ shmem.shared = Core0Regs
                  /\ \A d \in Secondaries : shmem.stacks[d] = CoreStackTop(d - 1)
            /\ Started(c) =>
                  /\ sec_regs[c].sp = CoreStackTop(c - 1)
                  /\ [ttbr0 |-> sec_regs[c].ttbr0, tcr |-> sec_regs[c].tcr,
                      mair |-> sec_regs[c].mair] = Core0Regs
                  /\ \A d \in Secondaries \ {c} :
                        Started(d) => /\ sec_regs[d].sp /= sec_regs[c].sp
                                      /\ CoreStack(c - 1) \cap CoreStack(d - 1) = {})
    /\ [][\A c \in Secondaries : smp_wake(c) => smp_pc \notin {"cores", "stacks", "share", "dsb"}]_vars

\* the three secondary cores run secondary_core_main, each on its own stack
C34_Witness ==
    /\ \A c \in Secondaries : Started(c) /\ sec_regs[c].sp = CoreStackTop(c - 1)
    /\ smp_pc = "done"

\* ---- C35 ---------------------------------------------------------------

Strict(e, Op(_)) == CHOOSE r \in {Op(x) : x \in {e}} : TRUE

\* the filesystem and the heap it stores file contents in
FsNow == [pool |-> node_pool, used |-> nodes_used, cwd |-> cwd, mem |-> Mem,
          bytes |-> fs_bytes, hang |-> FALSE]

\* the terminating '\0' of a string in memory
NUL == "NUL"
\* the string that starts at the first of bytes
CString(bytes) ==
    IF \E k \in 1 .. Len(bytes) : bytes[k] = NUL
    THEN SubSeq(bytes, 1, (CHOOSE k \in 1 .. Len(bytes) :
                              bytes[k] = NUL /\ \A j \in 1 .. (k - 1) : bytes[j] /= NUL) - 1)
    ELSE bytes

RECURSIVE FindFrom(_, _, _)
FindFrom(pool, child, nm) ==
    IF child = NULL THEN NULL
    ELSE IF pool[child].name = nm THEN child
    ELSE FindFrom(pool, pool[child].next_sibling, nm)

\* find_child(dir, name)
find_child(pool, dir, nm) ==
    IF dir = NULL \/ pool[dir].type /= FS_DIR THEN NULL
    ELSE FindFrom(pool, pool[dir].children, nm)

RECURSIVE SkipSlashes(_, _)
SkipSlashes(path, pos) ==
    IF pos <= Len(path) /\ path[pos] = "/" THEN SkipSlashes(path, pos + 1) ELSE pos

RECURSIVE CompEnd(_, _, _)
CompEnd(path, pos, n) ==
    IF pos <= Len(path) /\ path[pos] /= "/" /\ n > 0 THEN CompEnd(path, pos + 1, n - 1)
    ELSE pos

\* next_component(&path, comp, maxlen) with path at position pos: the
\* component copied, of at most maxlen - 1 characters, and the new position
next_component(path, pos, maxlen) ==
    LET start == SkipSlashes(path, pos)
        end == CompEnd(path, start, maxlen - 1)
    IN [comp |-> SubSeq(path, start, end - 1), pos |-> end]

RECURSIVE ResolveWalk(_, _, _, _)
ResolveWalk(pool, cur, path, pos) ==
    LET c == next_component(path, pos, FS_NAME_MAX)
    IN IF Len(c.comp) = 0 THEN cur
       ELSE IF c.comp = <<".">> THEN ResolveWalk(pool, cur, path, c.pos)
       ELSE IF c.comp = <<".", ".">>
       THEN ResolveWalk(pool, IF pool[cur].parent /= NULL THEN pool[cur].parent ELSE cur,
                        path, c.pos)
       ELSE LET child == find_child(pool, cur, c.comp)
            IN IF child = NULL THEN NULL ELSE ResolveWalk(pool, child, path, c.pos)

\* fs_resolve(path)
fs_resolve(F, path) ==
    IF path = << >> THEN F.cwd
    ELSE IF path[1] = "/" THEN ResolveWalk(F.pool, root, path, 2)
    ELSE ResolveWalk(F.pool, F.cwd, path, 1)

RECURSIVE ParentWalk(_, _, _, _, _)
ParentWalk(pool, cur, path, pos, last) ==
    IF ~(pos < last) THEN cur
    ELSE LET c == next_component(path, pos, FS_NAME_MAX)
         IN IF Len(c.comp) = 0 THEN cur
            ELSE IF c.comp = <<".">> THEN ParentWalk(pool, cur, path, c.pos, last)
            ELSE IF c.comp = <<".", ".">>
            THEN ParentWalk(pool, IF pool[cur].parent /= NULL THEN pool[cur].parent ELSE cur,
                            path, c.pos, last)
            ELSE LET child == find_child(pool, cur, c.comp)
                 IN IF child = NULL \/ pool[child].type /= FS_DIR THEN NULL
                    ELSE ParentWalk(pool, child, path, c.pos, last)

\* resolve_parent(path, basename): the parent directory and the basename
resolve_parent(F, path) ==
    LET abs == Len(path) > 0 /\ path[1] = "/"
        first == IF abs THEN 2 ELSE 1
        cur == IF abs THEN root ELSE F.cwd
        slashes == {k \in first .. Len(path) : path[k] = "/"}
    IN IF slashes = {}
       THEN [parent |-> cur,
             basename |-> fs_strncpy(SubSeq(path, first, Len(path)), FS_NAME_MAX - 1)]
       ELSE LET last_slash == CHOOSE k \in slashes : \A j \in slashes : j <= k
            IN [parent |-> ParentWalk(F.pool, cur, path, first, last_slash),
                basename |-> fs_strncpy(SubSeq(path, last_slash + 1, Len(path)),
                                        FS_NAME_MAX - 1)]

\* alloc_node(name, type)
alloc_node(F, nm, type) ==
    IF F.used >= FS_MAX_NODES THEN [fs |-> F, node |-> NULL]
    ELSE [fs |-> [F EXCEPT !.pool[F.used] = NewNode(nm, type), !.used = @ + 1],
          node |-> F.used]

\* free_node(node)
free_node(F, node) ==
    Strict(F.pool[node].data, LAMBDA data :
        [F EXCEPT !.mem = IF data /= NULL THEN kfree_ptr(F.mem, data) ELSE F.mem,
                  !.pool[node].data = NULL, !.pool[node].size = 0,
                  !.pool[node].name = << >>,
                  !.bytes = [q \in DOMAIN F.bytes \ {data} |-> F.bytes[q]]])

\* add_child(dir, child)
add_child(pool, dir, child) ==
    [pool EXCEPT ![child].parent = dir,
                 ![child].next_sibling = pool[dir].children,
                 ![dir].children = child]

RECURSIVE PrevOf(_, _, _)
PrevOf(pool, n, child) ==
    IF n = NULL THEN NULL
    ELSE IF pool[n].next_sibling = child THEN n
    ELSE PrevOf(pool, pool[n].next_sibling, child)

\* remove_child that leaves the list of the directory as it is
remove_child_none(pool, dir, child) == pool

\* remove_child(dir, child)
remove_child(pool, dir, child) ==
    LET prev == PrevOf(pool, pool[dir].children, child)
        cut == [pool EXCEPT ![child].next_sibling = NULL, ![child].parent = NULL]
    IN IF pool[dir].children = child
       THEN [cut EXCEPT ![dir].children = pool[child].next_sibling]
       ELSE IF prev = NULL THEN pool
       ELSE [cut EXCEPT ![prev].next_sibling = pool[child].next_sibling]

\* fs_mkdir(path)
fs_mkdir(F, path) ==
    Strict(resolve_parent(F, path), LAMBDA rp :
        IF rp.parent = NULL \/ F.pool[rp.parent].type /= FS_DIR THEN [fs |-> F, ret |-> NULL]
        ELSE IF rp.basename = << >> THEN [fs |-> F, ret |-> NULL]
        ELSE IF find_child(F.pool, rp.parent, rp.basename) /= NULL THEN [fs |-> F, ret |-> NULL]
        ELSE Strict(alloc_node(F, rp.basename, FS_DIR), LAMBDA a :
                 IF a.node = NULL THEN [fs |-> F, ret |-> NULL]
                 ELSE [fs |-> [a.fs EXCEPT !.pool = add_child(a.fs.pool, rp.parent, a.node)],
                       ret |-> a.node]))

\* fs_rmdir with cwd left where it is
rmdir_cwd_keep(F, node) == F.cwd

\* fs_rmdir: if (node == cwd) cwd = node->parent
rmdir_cwd(F, node) == IF node = F.cwd THEN F.pool[node].parent ELSE F.cwd

\* fs_rmdir(path)
fs_rmdir(F, path) ==
    Strict(fs_resolve(F, path), LAMBDA node :
        IF node = NULL THEN [fs |-> F, ret |-> -1]
        ELSE IF F.pool[node].type /= FS_DIR THEN [fs |-> F, ret |-> -1]
        ELSE IF node = root THEN [fs |-> F, ret |-> -1]
        ELSE IF F.pool[node].children /= NULL THEN [fs |-> F, ret |-> -1]
        ELSE Strict([F EXCEPT !.cwd = rmdir_cwd(F, node),
                              !.pool = remove_child(F.pool, F.pool[node].parent, node)],
                    LAMBDA G : [fs |-> free_node(G, node), ret |-> 0]))

\* fs_touch(path)
fs_touch(F, path) ==
    Strict(fs_resolve(F, path), LAMBDA existing :
        IF existing /= NULL THEN [fs |-> F, ret |-> existing]
        ELSE Strict(resolve_parent(F, path), LAMBDA rp :
            IF rp.parent = NULL \/ F.pool[rp.parent].type /= FS_DIR THEN [fs |-> F, ret |-> NULL]
            ELSE IF rp.basename = << >> THEN [fs |-> F, ret |-> NULL]
            ELSE Strict(alloc_node(F, rp.basename, FS_FILE), LAMBDA a :
                     IF a.node = NULL THEN [fs |-> F, ret |-> NULL]
                     ELSE [fs |-> [a.fs EXCEPT !.pool = add_child(a.fs.pool, rp.parent, a.node)],
                           ret |-> a.node])))

\* fs_write once the file is there: free the old content, store the new
fs_write_data(F1, file, content) ==
    LET len == IF Len(content) > FS_MAX_DATA THEN FS_MAX_DATA ELSE Len(content)
        old == F1.pool[file].data
    IN Strict(IF old /= NULL
              THEN [F1 EXCEPT !.mem = kfree_ptr(F1.mem, old),
                              !.pool[file].data = NULL, !.pool[file].size = 0,
                              !.bytes = [q \in DOMAIN F1.bytes \ {old} |-> F1.bytes[q]]]
              ELSE F1,
              LAMBDA F2 :
                  IF len = 0 THEN [fs |-> F2, ret |-> file]
                  ELSE Strict(kmalloc(F2.mem, U64Of(len + 1)), LAMBDA r :
                      IF r.hang THEN [fs |-> [F2 EXCEPT !.hang = TRUE], ret |-> NULL]
                      ELSE IF r.ret = NULL THEN [fs |-> [F2 EXCEPT !.mem = r.mem], ret |-> NULL]
                      ELSE [fs |-> [F2 EXCEPT !.mem = r.mem,
                                              !.pool[file].data = r.ret,
                                              !.pool[file].size = len,
                                              !.bytes = [q \in DOMAIN F2.bytes \cup {r.ret} |->
                                                           IF q = r.ret
                                                           THEN SubSeq(content, 1, len) \o <<NUL>>
                                                           ELSE F2.bytes[q]]],
                            ret |-> file]))

\* fs_write(path, content)
fs_write(F, path, content) ==
    Strict(fs_resolve(F, path), LAMBDA found :
        Strict(IF found = NULL THEN fs_touch(F, path) ELSE [fs |-> F, ret |-> found],
               LAMBDA made :
                   IF made.ret = NULL THEN [fs |-> made.fs, ret |-> NULL]
                   ELSE IF made.fs.pool[made.ret].type /= FS_FILE
                   THEN [fs |-> made.fs, ret |-> NULL]
                   ELSE fs_write_data(made.fs, made.ret, content)))

\* fs_read(path, &size): the pointer returned and the size stored
fs_read(F, path) ==
    Strict(fs_resolve(F, path), LAMBDA file :
        IF file = NULL THEN [data |-> NULL, size |-> 0]
        ELSE IF F.pool[file].type /= FS_FILE THEN [data |-> NULL, size |-> 0]
        ELSE [data |-> F.pool[file].data, size |-> F.pool[file].size])

\* fs_rm(path)
fs_rm(F, path) ==
    Strict(fs_resolve(F, path), LAMBDA node :
        IF node = NULL THEN [fs |-> F, ret |-> -1]
        ELSE IF F.pool[node].type = FS_DIR THEN [fs |-> F, ret |-> -1]
        ELSE IF node = root THEN [fs |-> F, ret |-> -1]
        ELSE Strict([F EXCEPT !.pool = remove_child(F.pool, F.pool[node].parent, node)],
                    LAMBDA G : [fs |-> free_node(G, node), ret |-> 0]))

\* fs_set_cwd(dir)
fs_set_cwd(F, dir) ==
    IF dir /= NULL /\ F.pool[dir].type = FS_DIR THEN [F EXCEPT !.cwd = dir] ELSE F

\* the shell command cd: without an argument to the root, else to what the
\* argument resolves to if that is a directory
cmd_cd(F, path) ==
    Strict(fs_resolve(F, path), LAMBDA dir :
        IF path = << >> THEN fs_set_cwd(F, root)
        ELSE IF dir = NULL THEN F
        ELSE IF F.pool[dir].type /= FS_DIR THEN F
        ELSE fs_set_cwd(F, dir))

\* a name longer than a node stores
LongName == [i \in 1 .. FS_NAME_MAX |-> "c"]
\* a content longer than a file stores
LongData == [i \in 1 .. (FS_MAX_DATA + 1) |-> "x"]
\* the paths tried
FsPaths ==
    {<<"a">>, <<"b">>, <<"/", "a">>, <<"a", "/", "b">>, <<".", ".">>, <<"/">>, LongName}
\* the contents tried
FsContents == {<<"y">>, LongData}

\* what a filesystem call leaves alone
FsFrame ==
    UNCHANGED <<state, id, name, sleep_until, next, current_task, ready_queue_head,
                next_task_id, tick_count, pc, ret, hist_vars, ps_vars, call, alloc_calls,
                held_runs, held_blocks, kfree_out, stack_vars, boot_vars, mmu_vars,
                lock_vars, smp_vars, shell_vars>>

\* the state a filesystem call leaves
FsBecomes(F) ==
    /\ node_pool' = F.pool
    /\ nodes_used' = F.used
    /\ cwd' = F.cwd
    /\ fs_bytes' = F.bytes
    /\ MemBecomes(F.mem)
    /\ hung' = F.hang
    /\ FsFrame


mkdir_call(path) ==
    /\ ~hung
    /\ \E F \in {FsNow} : \E r \in {fs_mkdir(F, path)} : FsBecomes(r.fs)

rmdir_call(path) ==
    /\ ~hung
    /\ \E F \in {FsNow} : \E r \in {fs_rmdir(F, path)} : FsBecomes(r.fs)

touch_call(path) ==
    /\ ~hung
    /\ \E F \in {FsNow} : \E r \in {fs_touch(F, path)} : FsBecomes(r.fs)

write_call(path, content) ==
    /\ ~hung
    /\ \E F \in {FsNow} : \E r \in {fs_write(F, path, content)} : FsBecomes(r.fs)

\* cat: fs_read(path, &size)
read_call(path) ==
    /\ ~hung
    /\ \E F \in {FsNow} :
          /\ fs_read(F, path).data \in {NULL} \cup DOMAIN fs_bytes
          /\ FsBecomes(F)

rm_call(path) ==
    /\ ~hung
    /\ \E F \in {FsNow} : \E r \in {fs_rm(F, path)} : FsBecomes(r.fs)

cd_call(path) ==
    /\ ~hung
    /\ \E F \in {FsNow} : \E G \in {cmd_cd(F, path)} : FsBecomes(G)

NextFs ==
    \/ \E path \in FsPaths : mkdir_call(path)
    \/ \E path \in FsPaths : rmdir_call(path)
    \/ \E path \in FsPaths : touch_call(path)
    \/ \E path \in FsPaths, content \in FsContents : write_call(path, content)
    \/ \E path \in FsPaths : read_call(path)
    \/ \E path \in FsPaths : rm_call(path)
    \/ \E path \in FsPaths \cup {<< >>} : cd_call(path)

SpecFs == Init /\ [][NextFs]_vars

\* ---- the tree as seen from the root --------------------------------------

RECURSIVE SiblingsFrom(_, _, _)
\* the nodes on the sibling list that starts at first, in list order
SiblingsFrom(pool, first, fuel) ==
    IF first = NULL \/ fuel = 0 THEN << >>
    ELSE <<first>> \o SiblingsFrom(pool, pool[first].next_sibling, fuel - 1)

\* the children of directory dir, in list order
ChildList(pool, dir) == SiblingsFrom(pool, pool[dir].children, FS_MAX_NODES)
Children(pool, dir) == {ChildList(pool, dir)[k] : k \in 1 .. Len(ChildList(pool, dir))}

RECURSIVE Grow(_, _, _)
Grow(pool, S, k) ==
    IF k = 0 THEN S ELSE Grow(pool, S \cup UNION {Children(pool, d) : d \in S}, k - 1)

\* the files and directories the filesystem holds: what is linked below the root
Live(pool) == Grow(pool, {root}, FS_MAX_NODES)

RECURSIVE LinkedUp(_, _, _)
\* following parent links from n reaches the root, each step a child of its parent
LinkedUp(pool, n, fuel) ==
    \/ n = root
    \/ /\ fuel > 0
       /\ pool[n].parent /= NULL
       /\ n \in Children(pool, pool[n].parent)
       /\ LinkedUp(pool, pool[n].parent, fuel - 1)

\* a pool slot that held a directory removed by fs_rmdir
RemovedDir(i) ==
    /\ i /= root /\ i < nodes_used
    /\ node_pool[i].type = FS_DIR /\ node_pool[i].parent = NULL

\* ---- C36 ---------------------------------------------------------------

\* C36: rmdir refusals.  fs_rmdir on a directory that still has children, on
\* the root, on a file or on a path that does not resolve returns -1 and
\* leaves the tree and the current working directory unchanged; fs_rmdir on
\* an empty non-root directory returns 0 and unlinks it from its parent.
C36_Rmdir ==
    \A path \in FsPaths : \A F \in {FsNow} :
    \A node \in {fs_resolve(F, path)} : \A r \in {fs_rmdir(F, path)} :
        IF \/ node = NULL
           \/ node = root
           \/ F.pool[node].type /= FS_DIR
           \/ F.pool[node].children /= NULL
        THEN r.ret = -1 /\ r.fs = F
        ELSE /\ r.ret = 0
             /\ Live(r.fs.pool) = Live(F.pool) \ {node}
             /\ \A d \in Live(r.fs.pool) :
                   ChildList(r.fs.pool, d)
                       = SelectSeq(ChildList(F.pool, d), LAMBDA c : c /= node)

\* a directory has been removed while another directory still has a child
C36_Witness ==
    /\ \E i \in DOMAIN node_pool : RemovedDir(i)
    /\ \E d \in Live(node_pool) \ {root} :
          node_pool[d].type = FS_DIR /\ node_pool[d].children /= NULL

\* ---- C37 ---------------------------------------------------------------

\* C37: file write/read round trip.  After fs_write(path, content) succeeds,
\* fs_read(path) returns exactly the first min(length of content,
\* FS_MAX_DATA) bytes of content with that size, whatever the file held
\* before; fs_write on a directory fails and changes nothing.
C37_WriteRead ==
    \A path \in FsPaths : \A content \in FsContents : \A F \in {FsNow} :
    \A r \in {fs_write(F, path, content)} : \A rd \in {fs_read(r.fs, path)} :
    \A len \in {IF Len(content) > FS_MAX_DATA THEN FS_MAX_DATA ELSE Len(content)} :
        /\ r.ret /= NULL =>
              /\ rd.data /= NULL
              /\ rd.data \in DOMAIN r.fs.bytes
              /\ CString(r.fs.bytes[rd.data]) = SubSeq(content, 1, len)
              /\ rd.size = len
        /\ \A node \in {fs_resolve(F, path)} :
              (node /= NULL /\ F.pool[node].type = FS_DIR) => r.ret = NULL /\ r.fs = F

\* ---- C38 ---------------------------------------------------------------

\* the parent directory of path exists and the name is free in it
CanCreate(F, path) ==
    \A rp \in {resolve_parent(F, path)} :
        /\ rp.parent /= NULL
        /\ F.pool[rp.parent].type = FS_DIR
        /\ rp.basename /= << >>
        /\ find_child(F.pool, rp.parent, rp.basename) = NULL

\* C38: node pool capacity.  The filesystem never holds more than
\* FS_MAX_NODES files and directories in total (root included); fs_mkdir and
\* fs_touch succeed whenever fewer than FS_MAX_NODES files and directories
\* currently exist, the parent directory exists and the name is free, also
\* after earlier nodes were removed with rm or rmdir; when the pool is full
\* they fail and leave the tree unchanged.
C38_PoolCapacity ==
    \A F \in {FsNow} : \A live \in {Cardinality(Live(F.pool))} :
        /\ live <= FS_MAX_NODES
        /\ \A path \in FsPaths :
           \A md \in {fs_mkdir(F, path)} : \A tc \in {fs_touch(F, path)} :
              /\ (live < FS_MAX_NODES /\ CanCreate(F, path)) =>
                    md.ret /= NULL /\ tc.ret /= NULL
              /\ live >= FS_MAX_NODES =>
                    /\ md.ret = NULL /\ md.fs = F
                    /\ fs_resolve(F, path) = NULL => tc.ret = NULL /\ tc.fs = F

\* ---- C39 ---------------------------------------------------------------

\* C39: working-directory validity.  After fs_init and any sequence of
\* mkdir, rmdir, touch, write, rm and cd operations, the current working
\* directory is a directory node that is still linked into the tree:
\* following parent links from it reaches the root and each step is a child
\* of its parent.
C39_CwdValid ==
    /\ cwd \in DOMAIN node_pool
    /\ node_pool[cwd].type = FS_DIR
    /\ LinkedUp(node_pool, cwd, FS_MAX_NODES)

\* the working directory lies below the root after a directory was removed
C39_Witness ==
    /\ cwd /= root
    /\ \E i \in DOMAIN node_pool : RemovedDir(i)

\* ---- kernel.c: command history and line editor --------------------------

\* the characters typed
ShellChars == {"a", "b"}

ShellFrame ==
    UNCHANGED <<sched_vars, hist_vars, ps_vars, alloc_vars, stack_vars, boot_vars, mmu_vars,
                lock_vars, smp_vars, fs_vars>>

\* the history as the three statics hold it
HistNow == [history |-> history, count |-> history_count, write |-> history_write]

\* history_add(cmd)
history_add(H, cmd) ==
    IF cmd = << >> THEN H
    ELSE IF H.count > 0 /\ H.history[(H.write - 1 + HISTORY_SIZE) % HISTORY_SIZE] = cmd THEN H
    ELSE [history |-> [H.history EXCEPT ![H.write] = cmd],
          write |-> (H.write + 1) % HISTORY_SIZE,
          count |-> IF H.count < HISTORY_SIZE THEN H.count + 1 ELSE H.count]

\* history_get: the slot of the entry index back from the most recent one
history_pos(write, index) == (write - 1 - index + HISTORY_SIZE * 2) % HISTORY_SIZE

\* history_get returning 0
NoEntry == [null |-> TRUE, cmd |-> << >>]

\* history_get(index)
history_get(index) ==
    IF index < 0 \/ index >= history_count THEN NoEntry
    ELSE [null |-> FALSE, cmd |-> history[history_pos(history_write, index)]]

\* uart_putc of each character of line, the cursor at column col
PutLine(row, col, line) ==
    [i \in DOMAIN row |-> IF i >= col /\ i < col + Len(line) THEN line[i - col + 1] ELSE row[i]]

\* while (pos > 0) { uart_puts("\b \b"); pos--; }
EraseLine(row, pos) == [i \in DOMAIN row |-> IF i < pos THEN " " ELSE row[i]]

RECURSIVE RowEnd(_, _)
RowEnd(row, n) == IF n > 0 /\ row[n - 1] = " " THEN RowEnd(row, n - 1) ELSE n

\* what the terminal row shows after the prompt
Shown == [i \in 1 .. RowEnd(scr, LINE_MAX - 1) |-> scr[i - 1]]

\* the run of arrow keys after one more Up
NavUp ==
    IF nav.ups = 0 /\ hist_idx = -1 THEN [ups |-> 1, downs |-> 0, orig |-> buf]
    ELSE IF nav.ups > 0 /\ nav.downs = 0
    THEN [nav EXCEPT !.ups = IF @ <= HISTORY_SIZE THEN @ + 1 ELSE @]
    ELSE [ups |-> -1, downs |-> 0, orig |-> << >>]

\* the run of arrow keys after one more Down
NavDown ==
    IF nav.ups > 0 THEN [nav EXCEPT !.downs = IF @ <= HISTORY_SIZE THEN @ + 1 ELSE @]
    ELSE IF nav.ups = 0 /\ hist_idx = -1 THEN nav
    ELSE [ups |-> -1, downs |-> 0, orig |-> << >>]

\* the commands a history of HISTORY_SIZE entries holds after cmd was entered
RecentAdd(cmd) ==
    IF cmd = << >> THEN recent
    ELSE IF recent /= << >> /\ recent[Len(recent)] = cmd THEN recent
    ELSE IF Len(recent) < HISTORY_SIZE THEN Append(recent, cmd)
    ELSE Append(Tail(recent), cmd)

\* shell_readline: a printable character
key_char(c) ==
    /\ IF Len(buf) < LINE_MAX - 1
       THEN buf' = Append(buf, c) /\ scr' = PutLine(scr, Len(buf), <<c>>)
       ELSE UNCHANGED <<buf, scr>>
    /\ nav' = NoNav
    /\ UNCHANGED <<history, history_count, history_write, hist_idx, saved, recent>>
    /\ ShellFrame

\* shell_readline: Enter, the return and the next call of shell_readline
key_enter ==
    /\ \E H \in {history_add(HistNow, buf)} :
          /\ history' = H.history
          /\ history_count' = H.count
          /\ history_write' = H.write
    /\ recent' = RecentAdd(buf)
    /\ buf' = << >>
    /\ hist_idx' = -1
    /\ saved' = << >>
    /\ scr' = BlankRow
    /\ nav' = NoNav
    /\ ShellFrame

\* shell_readline: Backspace
key_backspace ==
    /\ IF Len(buf) > 0
       THEN buf' = SubSeq(buf, 1, Len(buf) - 1) /\ scr' = [scr EXCEPT ![Len(buf) - 1] = " "]
       ELSE UNCHANGED <<buf, scr>>
    /\ nav' = NoNav
    /\ UNCHANGED <<history, history_count, history_write, hist_idx, saved, recent>>
    /\ ShellFrame

\* shell_readline: Ctrl+C, the return and the next call of shell_readline
key_ctrl_c ==
    /\ buf' = << >>
    /\ hist_idx' = -1
    /\ saved' = << >>
    /\ scr' = BlankRow
    /\ nav' = NoNav
    /\ UNCHANGED <<history, history_count, history_write, recent>>
    /\ ShellFrame

\* shell_readline: Ctrl+U
key_ctrl_u ==
    /\ buf' = << >>
    /\ scr' = EraseLine(scr, Len(buf))
    /\ nav' = NoNav
    /\ UNCHANGED <<history, history_count, history_write, hist_idx, saved, recent>>
    /\ ShellFrame

\* shell_readline: Ctrl+A moves the cursor back and sets pos to 0
key_ctrl_a ==
    /\ buf' = << >>
    /\ nav' = NoNav
    /\ UNCHANGED <<history, history_count, history_write, hist_idx, saved, scr, recent>>
    /\ ShellFrame

\* shell_readline: ESC [ A
key_up ==
    /\ \E h \in {history_get(hist_idx + 1)} :
          IF ~h.null
          THEN /\ saved' = IF hist_idx = -1 THEN buf ELSE saved
               /\ hist_idx' = hist_idx + 1
               /\ scr' = PutLine(EraseLine(scr, Len(buf)), 0, h.cmd)
               /\ buf' = h.cmd
          ELSE UNCHANGED <<saved, hist_idx, scr, buf>>
    /\ nav' = NavUp
    /\ UNCHANGED <<history, history_count, history_write, recent>>
    /\ ShellFrame

\* shell_readline: ESC [ B
key_down ==
    /\ IF hist_idx > 0
       THEN \E h \in {history_get(hist_idx - 1)} :
               /\ hist_idx' = hist_idx - 1
               /\ buf' = h.cmd
               /\ scr' = PutLine(EraseLine(scr, Len(buf)), 0, h.cmd)
       ELSE IF hist_idx = 0
       THEN /\ hist_idx' = -1
            /\ buf' = saved
            /\ scr' = PutLine(EraseLine(scr, Len(buf)), 0, saved)
       ELSE UNCHANGED <<hist_idx, buf, scr>>
    /\ nav' = NavDown
    /\ UNCHANGED <<history, history_count, history_write, saved, recent>>
    /\ ShellFrame

NextShell ==
    \/ \E c \in ShellChars : key_char(c)
    \/ key_enter
    \/ key_backspace
    \/ key_ctrl_c
    \/ key_ctrl_u
    \/ key_ctrl_a
    \/ key_up
    \/ key_down

SpecShell == Init /\ [][NextShell]_vars

\* ---- C40 ---------------------------------------------------------------

\* the j-th most recent of the commands the history has to hold
Recent(j) == recent[Len(recent) - j + 1]

\* C40: shell history navigation.  The history keeps the HISTORY_SIZE most
\* recent non-empty commands (an immediate repeat of the last command is not
\* stored again); in the line editor, pressing Up k times (k <= number of
\* stored commands) shows the k-th most recent command, further Up presses at
\* the oldest entry change nothing, and pressing Down k times afterwards
\* restores the line that was being edited before the first Up.
C40_History ==
    /\ history_count = Len(recent)
    /\ \A i \in 0 .. HISTORY_SIZE :
          history_get(i) = IF i < Len(recent) THEN [null |-> FALSE, cmd |-> Recent(i + 1)]
                           ELSE NoEntry
    /\ nav.ups > 0 =>
          \A k \in {IF nav.ups < Len(recent) THEN nav.ups ELSE Len(recent)} :
              /\ (k > 0 /\ nav.downs = 0) => buf = Recent(k) /\ Shown = Recent(k)
              /\ nav.downs >= k => buf = nav.orig

====
